---- MODULE Spec2Model ----
(***************************************************************************)
(* A model of the AQL fluent builder: the Query record that the fluent     *)
(* calls of AQLBuilder accumulate, and the compiler buildQuery with its    *)
(* helpers expressionToAql, documentToAql and buildGraphTraversal.         *)
(*                                                                         *)
(* JavaScript values are records tagged with the field js ("string",       *)
(* "number", "boolean", "null", "undefined", "array", "object",            *)
(* "generated"); expression nodes are records with a field type, so that   *)
(* the test `'type' in expr` of the source is "type" \in DOMAIN expr.      *)
(* An ExpressionBuilder instance is modelled by the expression it wraps    *)
(* (getExpression and toJSON both return it).  Compiled text is a string.  *)
(* A string field of the record that is undefined in the source is "",     *)
(* which the source never distinguishes (it tests truthiness); a list      *)
(* field that is undefined is the empty sequence.                          *)
(***************************************************************************)
EXTENDS Integers, Sequences, FiniteSets, TLC

(***************************************************************************)
(* JavaScript values                                                       *)
(***************************************************************************)
Undefined == [js |-> "undefined"]
Null == [js |-> "null"]
NaN == [js |-> "number", nan |-> TRUE]
Num(n) == [js |-> "number", n |-> n]
Str(s) == [js |-> "string", s |-> s]
Bool(b) == [js |-> "boolean", b |-> b]
Arr(items) == [js |-> "array", items |-> items]
Obj(entries) == [js |-> "object", entries |-> entries]
Generated(q, bv) == [js |-> "generated", query |-> q, bindVars |-> bv]

IsNode(e) == "type" \in DOMAIN e
JsType(e) == IF IsNode(e) THEN "object" ELSE e.js

\* String.prototype.startsWith
StartsWith(s, p) == Len(s) >= Len(p) /\ SubSeq(s, 1, Len(p)) = p

RECURSIVE ContainsFrom(_, _, _)
ContainsFrom(s, p, i) ==
  IF i + Len(p) - 1 > Len(s) THEN FALSE
  ELSE IF SubSeq(s, i, i + Len(p) - 1) = p THEN TRUE
  ELSE ContainsFrom(s, p, i + 1)
\* String.prototype.includes
Includes(s, p) == ContainsFrom(s, p, 1)

\* Array.prototype.join
RECURSIVE Join(_, _)
Join(parts, sep) ==
  IF Len(parts) = 0 THEN ""
  ELSE IF Len(parts) = 1 THEN parts[1]
  ELSE parts[1] \o sep \o Join(Tail(parts), sep)

\* String(v), `${v}` for a number; `${null}` is null
NumberToString(v) ==
  IF v = Null THEN "null"
  ELSE IF "nan" \in DOMAIN v THEN "NaN"
  ELSE IF v.n < 0 THEN "-" \o ToString(0 - v.n) ELSE ToString(v.n)

\* JSON.stringify of a string: the text between double quotes
Quote(s) == "\"" \o s \o "\""

\* truthiness of a value
Truthy(v) ==
  IF IsNode(v) THEN TRUE
  ELSE CASE v.js = "undefined" -> FALSE
         [] v.js = "null" -> FALSE
         [] v.js = "string" -> v.s # ""
         [] v.js = "number" -> IF "nan" \in DOMAIN v THEN FALSE ELSE v.n # 0
         [] v.js = "boolean" -> v.b
         [] OTHER -> TRUE

\* bindVars[name] = value
SetKey(bv, name, value) ==
  [x \in (DOMAIN bv) \cup {name} |-> IF x = name THEN value ELSE bv[x]]
\* Object.assign(bindVars, other)
ObjectAssign(bv, other) ==
  [x \in (DOMAIN bv) \cup (DOMAIN other) |->
     IF x \in DOMAIN other THEN other[x] ELSE bv[x]]
EmptyMap == << >>

\* the writes that Object.assign makes, in some enumeration order
RECURSIVE WritesOf(_, _)
WritesOf(keys, other) ==
  IF keys = {} THEN << >>
  ELSE LET k == CHOOSE x \in keys : TRUE
       IN <<[name |-> k, value |-> other[k], gen |-> FALSE, counter |-> 0]>>
            \o WritesOf(keys \ {k}, other)

\* Object.entries of an object that is not a plain document
ObjectEntries(e) ==
  IF IsNode(e) THEN
    CASE e.type = "old" -> << <<"type", Str("old")>>, <<"path", Str(e.path)>> >>
      [] e.type = "reference" ->
           << <<"type", Str("reference")>>, <<"name", Str(e.name)>> >>
      [] e.type = "literal" ->
           << <<"type", Str("literal")>>, <<"value", e.value>> >>
      [] OTHER -> << <<"type", Str(e.type)>> >>
  ELSE IF e.js = "array" THEN
    [i \in 1..Len(e.items) |-> <<ToString(i - 1), e.items[i]>>]
  ELSE e.entries

(***************************************************************************)
(* expressionToAql and documentToAql.  A result is the record              *)
(* [aql, paramCounter, bindVars, writes]: bindVars is the map the source   *)
(* mutates in place, and writes is the log of the assignments made to it.  *)
(***************************************************************************)
Res(aql, pc, bv, w) ==
  [aql |-> aql, paramCounter |-> pc, bindVars |-> bv, writes |-> w]

\* const paramName = `<kind>${paramCounter++}`; bindVars[paramName] = value
Alloc(kind, value, pc, bv, w) ==
  LET name == kind \o ToString(pc)
  IN [name |-> name,
      paramCounter |-> pc + 1,
      bindVars |-> SetKey(bv, name, value),
      writes |-> Append(w, [name |-> name, value |-> value,
                            gen |-> TRUE, counter |-> pc])]

RECURSIVE expressionToAql(_, _, _, _)
RECURSIVE documentToAql(_, _, _, _)
RECURSIVE argsToAql(_, _, _, _, _, _)
RECURSIVE entriesToAql(_, _, _, _, _, _)

\* a result with another text
WithAql(r, aql) == Res(aql, r.paramCounter, r.bindVars, r.writes)
\* an allocation a, used as the placeholder of a text
AllocAql(a, before, after) ==
  Res(before \o "@" \o a.name \o after, a.paramCounter, a.bindVars, a.writes)

\* typedExpr.args.map(arg => expressionToAql(arg, bindVars, paramCounter))
ArgsNext(args, i, acc, r) ==
  argsToAql(args, i + 1, Append(acc, r.aql), r.paramCounter, r.bindVars, r.writes)
argsToAql(args, i, acc, pc, bv, w) ==
  IF i > Len(args) THEN Res(acc, pc, bv, w)
  ELSE ArgsNext(args, i, acc, expressionToAql(args[i], bv, pc, w))

\* case 'binary' without the test for an array on the right of IN / NOT IN
BinaryToAqlGeneric(expr, left) ==
  LET right == expressionToAql(expr.right, left.bindVars,
                               left.paramCounter, left.writes)
  IN WithAql(right,
             "(" \o left.aql \o " " \o expr.operator \o " " \o right.aql \o ")")

\* case 'binary', once the left operand is compiled
BinaryToAql(expr, left) ==
  IF expr.operator \in {"IN", "NOT IN"}
     /\ IsNode(expr.right) /\ expr.right.type = "literal"
     /\ ~IsNode(expr.right.value) /\ expr.right.value.js = "array"
  THEN AllocAql(Alloc("inValues", expr.right.value, left.paramCounter,
                      left.bindVars, left.writes),
                "(" \o left.aql \o " " \o expr.operator \o " ", ")")
  ELSE LET right == expressionToAql(expr.right, left.bindVars,
                                    left.paramCounter, left.writes)
       IN WithAql(right,
                  "(" \o left.aql \o " " \o expr.operator \o " " \o right.aql \o ")")

\* case 'ternary', once the condition, and then the then-value, are compiled
TernaryElse(expr, cond, thenVal) ==
  LET elseVal == expressionToAql(expr.elseValue, thenVal.bindVars,
                                 thenVal.paramCounter, thenVal.writes)
  IN WithAql(elseVal, "(" \o cond.aql \o " ? " \o thenVal.aql \o " : "
                        \o elseVal.aql \o ")")
TernaryThen(expr, cond) ==
  TernaryElse(expr, cond,
              expressionToAql(expr.thenValue, cond.bindVars,
                              cond.paramCounter, cond.writes))

\* case 'like' that writes the pattern into the text
LikeToAqlInlining(expr, exprResult) ==
  IF expr.caseInsensitive
  THEN WithAql(exprResult,
               "LIKE(" \o exprResult.aql \o ", " \o Quote(expr.pattern) \o ", 'i')")
  ELSE WithAql(exprResult,
               "(" \o exprResult.aql \o " LIKE " \o Quote(expr.pattern) \o ")")

\* case 'like', once the expression is compiled
LikeToAql(expr, exprResult) ==
  IF expr.caseInsensitive
  THEN AllocAql(Alloc("likePattern", Str(expr.pattern), exprResult.paramCounter,
                      exprResult.bindVars, exprResult.writes),
                "LIKE(" \o exprResult.aql \o ", ", ", 'i')")
  ELSE AllocAql(Alloc("likePattern", Str(expr.pattern), exprResult.paramCounter,
                      exprResult.bindVars, exprResult.writes),
                "(" \o exprResult.aql \o " LIKE ", ")")

\* case 'regex', once the expression is compiled
RegexToAql(expr, exprResult) ==
  AllocAql(Alloc("regexPattern", Str(expr.pattern), exprResult.paramCounter,
                 exprResult.bindVars, exprResult.writes),
           "REGEX_MATCH(" \o exprResult.aql \o ", ",
           (IF expr.flags # "" THEN ", " \o Quote(expr.flags) ELSE "") \o ")")

UnaryToAql(expr, operand) == WithAql(operand, expr.operator \o operand.aql)
FunctionToAql(expr, args) ==
  WithAql(args, expr.name \o "(" \o Join(args.aql, ", ") \o ")")

expressionToAql(expr, bindVars, paramCounter, writes) ==
  IF ~IsNode(expr) /\ expr.js = "string" THEN
    Res(expr.s, paramCounter, bindVars, writes)
  ELSE IF ~IsNode(expr) /\ expr.js = "number" THEN
    Res(NumberToString(expr), paramCounter, bindVars, writes)
  ELSE IF ~IsNode(expr) /\ expr.js = "boolean" THEN
    Res(IF expr.b THEN "true" ELSE "false", paramCounter, bindVars, writes)
  ELSE IF ~IsNode(expr) /\ expr.js = "null" THEN
    Res("null", paramCounter, bindVars, writes)
  ELSE IF ~IsNode(expr) /\ expr.js = "generated" THEN
    Res("(" \o expr.query \o ")", paramCounter,
        ObjectAssign(bindVars, expr.bindVars),
        writes \o WritesOf(DOMAIN expr.bindVars, expr.bindVars))
  ELSE IF IsNode(expr) /\ expr.type = "literal" THEN
    IF expr.value = Null THEN Res("null", paramCounter, bindVars, writes)
    ELSE AllocAql(Alloc("value", expr.value, paramCounter, bindVars, writes), "", "")
  ELSE IF IsNode(expr) /\ expr.type = "reference" THEN
    Res(expr.name, paramCounter, bindVars, writes)
  ELSE IF IsNode(expr) /\ expr.type = "parameter" THEN
    Res((IF expr.isCollection THEN "@@" ELSE "@") \o expr.name,
        paramCounter, bindVars, writes)
  ELSE IF IsNode(expr) /\ expr.type = "binary" THEN
    BinaryToAql(expr, expressionToAql(expr.left, bindVars, paramCounter, writes))
  ELSE IF IsNode(expr) /\ expr.type = "unary" THEN
    UnaryToAql(expr, expressionToAql(expr.operand, bindVars, paramCounter, writes))
  ELSE IF IsNode(expr) /\ expr.type = "function" THEN
    FunctionToAql(expr, argsToAql(expr.args, 1, << >>, paramCounter, bindVars, writes))
  ELSE IF IsNode(expr) /\ expr.type = "ternary" THEN
    TernaryThen(expr, expressionToAql(expr.condition, bindVars, paramCounter, writes))
  ELSE IF IsNode(expr) /\ expr.type = "like" THEN
    LikeToAql(expr, expressionToAql(expr.expression, bindVars, paramCounter, writes))
  ELSE IF IsNode(expr) /\ expr.type = "regex" THEN
    RegexToAql(expr, expressionToAql(expr.expression, bindVars, paramCounter, writes))
  ELSE IF JsType(expr) = "object" \/ expr.js = "array" THEN \* typeof expr === 'object'
    documentToAql(expr, bindVars, paramCounter, writes)
  ELSE \* JSON.stringify(undefined) is undefined
    Res("undefined", paramCounter, bindVars, writes)

\* for (const [key, value] of Object.entries(doc))
EntriesNext(entries, i, acc, valueStr) ==
  entriesToAql(entries, i + 1,
               Append(acc, Quote(entries[i][1]) \o ": " \o valueStr.aql),
               valueStr.paramCounter, valueStr.bindVars, valueStr.writes)
entriesToAql(entries, i, acc, pc, bv, w) ==
  IF i > Len(entries) THEN Res(acc, pc, bv, w)
  ELSE IF ~IsNode(entries[i][2]) /\ entries[i][2].js = "string"
          /\ ~StartsWith(entries[i][2].s, "@")
  THEN EntriesNext(entries, i, acc, Res(Quote(entries[i][2].s), pc, bv, w))
  ELSE EntriesNext(entries, i, acc, expressionToAql(entries[i][2], bv, pc, w))

DocumentText(es) == WithAql(es, "{" \o Join(es.aql, ", ") \o "}")
documentToAql(doc, bindVars, paramCounter, writes) ==
  IF ~(JsType(doc) = "object" \/ doc.js = "array") THEN
    expressionToAql(doc, bindVars, paramCounter, writes)
  ELSE DocumentText(entriesToAql(ObjectEntries(doc), 1, << >>,
                                 paramCounter, bindVars, writes))

(***************************************************************************)
(* buildGraphTraversal                                                     *)
(***************************************************************************)
\* a || b || 1 over depth values
FirstTruthy(vals) ==
  IF Truthy(vals[1]) THEN vals[1]
  ELSE IF Len(vals) > 1 /\ Truthy(vals[2]) THEN vals[2]
  ELSE Num(1)

\* buildGraphTraversal that puts every start vertex between double quotes
buildGraphTraversalQuoting(graph) ==
  LET depth == NumberToString(FirstTruthy(<<graph.minDepth>>)) \o ".."
                 \o NumberToString(FirstTruthy(<<graph.maxDepth, graph.minDepth>>))
      traversal == depth \o " " \o graph.direction \o " " \o Quote(graph.startVertex)
                     \o " GRAPH " \o Quote(graph.graph)
  IN IF Truthy(graph.options)
     THEN traversal \o " OPTIONS "
            \o documentToAql(graph.options, EmptyMap, 0, << >>).aql
     ELSE traversal

buildGraphTraversal(graph) ==
  LET depth == NumberToString(FirstTruthy(<<graph.minDepth>>)) \o ".."
                 \o NumberToString(FirstTruthy(<<graph.maxDepth, graph.minDepth>>))
      vertex == IF StartsWith(graph.startVertex, "@")
                   \/ StartsWith(graph.startVertex, "\"")
                   \/ ~Includes(graph.startVertex, "/")
                THEN graph.startVertex
                ELSE Quote(graph.startVertex)
      traversal == depth \o " " \o graph.direction \o " " \o vertex
                     \o " GRAPH " \o Quote(graph.graph)
  IN IF Truthy(graph.options)
     THEN traversal \o " OPTIONS "
            \o documentToAql(graph.options, EmptyMap, 0, << >>).aql
     ELSE traversal

\* the source text of a FOR line
SourceStr(source) ==
  IF ~IsNode(source) /\ source.js = "string" THEN source.s
  ELSE IF IsNode(source) /\ source.type = "range"
    THEN NumberToString(Num(source.start)) \o ".." \o NumberToString(Num(source.end))
  ELSE IF IsNode(source) /\ source.type = "graph" THEN buildGraphTraversal(source)
  ELSE "undefined"

(***************************************************************************)
(* buildQuery.  The compile state is [parts, bindVars, paramCounter,       *)
(* writes]; each Emit operator is one section of the function, in the      *)
(* order of the source.                                                    *)
(***************************************************************************)
St(parts, bv, pc, w) ==
  [parts |-> parts, bindVars |-> bv, paramCounter |-> pc, writes |-> w]
Push(st, line) == [st EXCEPT !.parts = Append(@, line)]

EmitWith(q, st) ==
  IF Len(q.withCollections) > 0
  THEN Push(st, "WITH " \o Join(q.withCollections, ", "))
  ELSE st

EmitFor(q, st) ==
  IF q.multipleLoopVars # Undefined THEN
    LET m == q.multipleLoopVars
        sourceStr == IF Truthy(q.source) \/ IsNode(q.source)
                     THEN SourceStr(q.source) ELSE ""
        vars == <<m.vertex>> \o (IF m.edge # "" THEN <<m.edge>> ELSE << >>)
                  \o (IF m.path # "" THEN <<m.path>> ELSE << >>)
    IN Push(st, "FOR " \o Join(vars, ", ") \o " IN " \o sourceStr)
  ELSE IF q.variable # "" /\ Truthy(q.source) THEN
    Push(st, "FOR " \o q.variable \o " IN " \o SourceStr(q.source))
  ELSE st

RECURSIVE JoinsLoop(_, _, _)
JoinsLoop(joins, i, st) ==
  IF i > Len(joins) THEN st
  ELSE JoinsLoop(joins, i + 1,
         Push(st, "FOR " \o joins[i].variable \o " IN " \o SourceStr(joins[i].source)))
EmitJoins(q, st) == JoinsLoop(q.joins, 1, st)

\* parts.push(text + r.aql), and the paramCounter taken from the result r
PushResult(st, text, r) ==
  St(Append(st.parts, text \o r.aql), r.bindVars, r.paramCounter, r.writes)
\* the same where the source does not assign paramCounter from the result
PushResultSameCounter(st, text, r) ==
  St(Append(st.parts, text \o r.aql), r.bindVars, st.paramCounter, r.writes)

RECURSIVE LetsLoop(_, _, _)
LetsLoop(lets, i, st) ==
  IF i > Len(lets) THEN st
  ELSE LetsLoop(lets, i + 1,
         PushResult(st, "LET " \o lets[i].variable \o " = ",
                    expressionToAql(lets[i].expression, st.bindVars,
                                    st.paramCounter, st.writes)))
EmitLetsPreCollect(q, st) == LetsLoop(q.letsPreCollect, 1, st)
EmitLets(q, st) == LetsLoop(q.lets, 1, st)

\* search.conditions.map(c => expressionToAql(c, bindVars, paramCounter).aql):
\* every condition starts from the same paramCounter, which is not advanced
RECURSIVE ConditionsLoop(_, _, _, _, _, _)
ConditionsNext(conds, i, acc, pc, r) ==
  ConditionsLoop(conds, i + 1, Append(acc, r.aql), pc, r.bindVars, r.writes)
ConditionsLoop(conds, i, acc, pc, bv, w) ==
  IF i > Len(conds) THEN Res(acc, pc, bv, w)
  ELSE ConditionsNext(conds, i, acc, pc, expressionToAql(conds[i], bv, pc, w))

\* parts.push(`SEARCH ${search.view} ${conditions}`)
PushSearch(st, view, c) ==
  St(Append(st.parts, "SEARCH " \o view \o " " \o Join(c.aql, " AND ")),
     c.bindVars, st.paramCounter, c.writes)
RECURSIVE SearchesLoop(_, _, _)
SearchesLoop(searches, i, st) ==
  IF i > Len(searches) THEN st
  ELSE SearchesLoop(searches, i + 1,
         PushSearch(st, searches[i].view,
                    ConditionsLoop(searches[i].conditions, 1, << >>,
                                   st.paramCounter, st.bindVars, st.writes)))
EmitSearches(q, st) == SearchesLoop(q.searches, 1, st)

RECURSIVE FiltersLoop(_, _, _)
FiltersLoop(filters, i, st) ==
  IF i > Len(filters) THEN st
  ELSE FiltersLoop(filters, i + 1,
         PushResult(st, "FILTER ",
                    expressionToAql(filters[i], st.bindVars,
                                    st.paramCounter, st.writes)))
EmitFilters(q, st) == FiltersLoop(q.filters, 1, st)
EmitFiltersPostCollect(q, st) == FiltersLoop(q.filtersPostCollect, 1, st)

CollectText(collect) ==
  LET varStrings == [i \in 1..Len(collect.variables) |->
                       collect.variables[i].key \o " = " \o collect.variables[i].value]
      varParts == IF Len(collect.variables) > 0
                  THEN <<Join(varStrings, ", ")>> ELSE << >>
      aggregateStrings == [i \in 1..Len(collect.aggregate) |->
                             collect.aggregate[i].name \o " = "
                               \o collect.aggregate[i].expression]
      collectParts ==
        <<"COLLECT " \o Join(varParts, ", ")>>
        \o (IF collect.into # ""
            THEN <<"  INTO " \o collect.into>>
                   \o (IF Len(collect.keep) > 0
                       THEN <<"  KEEP " \o Join(collect.keep, ", ")>> ELSE << >>)
            ELSE << >>)
        \o (IF Len(collect.aggregate) > 0
            THEN <<"  AGGREGATE " \o Join(aggregateStrings, ", ")>> ELSE << >>)
  IN Join(collectParts, "\n")

RECURSIVE CollectsLoop(_, _, _)
CollectsLoop(collects, i, st) ==
  IF i > Len(collects) THEN st
  ELSE CollectsLoop(collects, i + 1, Push(st, CollectText(collects[i])))
EmitCollects(q, st) == CollectsLoop(q.collects, 1, st)

RECURSIVE TraversalsLoop(_, _, _)
TraversalsLoop(ts, i, st) ==
  IF i > Len(ts) THEN st
  ELSE LET traverseStr == "TRAVERSE " \o ts[i].variable \o " IN " \o ts[i].path
       IN TraversalsLoop(ts, i + 1,
            Push(st, IF Truthy(ts[i].maxDepth)
                     THEN traverseStr \o " MAXDEPTH " \o NumberToString(ts[i].maxDepth)
                     ELSE traverseStr))
EmitTraversals(q, st) == TraversalsLoop(q.traversals, 1, st)

\* the paramCounter is not advanced by a PRUNE condition
RECURSIVE PrunesLoop(_, _, _)
PrunesLoop(prunes, i, st) ==
  IF i > Len(prunes) THEN st
  ELSE PrunesLoop(prunes, i + 1,
         PushResultSameCounter(st, "PRUNE ",
           expressionToAql(prunes[i].condition, st.bindVars,
                           st.paramCounter, st.writes)))
EmitPrunes(q, st) == PrunesLoop(q.prunes, 1, st)

EmitSorts(q, st) ==
  IF Len(q.sorts) > 0
  THEN Push(st, "SORT " \o Join([i \in 1..Len(q.sorts) |->
                   q.sorts[i].field \o " " \o q.sorts[i].direction], ", "))
  ELSE st

\* the paramCounter is not advanced by a WINDOW aggregation
WindowStr(window) ==
  "WINDOW {\n"
    \o " preceding: " \o NumberToString(Num(window.preceding)) \o ",\n"
    \o " following: " \o NumberToString(Num(window.following)) \o "\n"
    \o "}\n"
RECURSIVE WindowsLoop(_, _, _)
WindowsLoop(ws, i, st) ==
  IF i > Len(ws) THEN st
  ELSE WindowsLoop(ws, i + 1,
         PushResultSameCounter(st, WindowStr(ws[i]) \o "AGGREGATE ",
           expressionToAql(ws[i].aggregation, st.bindVars,
                           st.paramCounter, st.writes)))
EmitWindows(q, st) == WindowsLoop(q.windows, 1, st)

EmitLimit(q, st) ==
  IF q.limit # Undefined /\ q.offset # Undefined
  THEN Push(st, "LIMIT " \o NumberToString(q.offset) \o ", " \o NumberToString(q.limit))
  ELSE IF q.limit # Undefined
  THEN Push(st, "LIMIT " \o NumberToString(q.limit))
  ELSE st

\* opStr, with the collection when there is one
OpStr(op, operand, keyword) ==
  IF op.collection # ""
  THEN op.type \o " " \o operand \o " " \o keyword \o " " \o op.collection
  ELSE op.type \o " " \o operand
PushInsert(st, op, docStr) ==
  St(Append(st.parts, OpStr(op, docStr.aql, "INTO")),
     docStr.bindVars, docStr.paramCounter, docStr.writes)
RECURSIVE OperationsLoop(_, _, _)
OperationsLoop(ops, i, st) ==
  IF i > Len(ops) THEN st
  ELSE IF ops[i].type = "INSERT"
  THEN OperationsLoop(ops, i + 1,
         PushInsert(st, ops[i],
                    documentToAql(ops[i].document, st.bindVars,
                                  st.paramCounter, st.writes)))
  ELSE OperationsLoop(ops, i + 1, Push(st, OpStr(ops[i], ops[i].variable, "IN")))
EmitOperations(q, st) == OperationsLoop(q.operations, 1, st)

\* one UPSERT block: the three documents are compiled in the order search,
\* insert, update, each from the counter the one before left
PushUpsert(st, upsert, search, insert, update) ==
  St(st.parts \o <<"UPSERT " \o search.aql, "INSERT " \o insert.aql,
                   "UPDATE " \o update.aql, "IN " \o upsert.collection>>,
     update.bindVars, update.paramCounter, update.writes)
UpsertUpdateDoc(st, upsert, search, insert) ==
  PushUpsert(st, upsert, search, insert,
             documentToAql(upsert.updateDoc, insert.bindVars,
                           insert.paramCounter, insert.writes))
UpsertInsertDoc(st, upsert, search) ==
  UpsertUpdateDoc(st, upsert, search,
                  documentToAql(upsert.insertDoc, search.bindVars,
                                search.paramCounter, search.writes))
UpsertSearchDoc(st, upsert) ==
  UpsertInsertDoc(st, upsert,
                  documentToAql(upsert.searchDoc, st.bindVars,
                                st.paramCounter, st.writes))
RECURSIVE UpsertsLoop(_, _, _)
UpsertsLoop(us, i, st) ==
  IF i > Len(us) THEN st
  ELSE UpsertsLoop(us, i + 1, UpsertSearchDoc(st, us[i]))
EmitUpserts(q, st) == UpsertsLoop(q.upserts, 1, st)

PushUpdate(st, update, updateFields) ==
  St(st.parts \o <<"UPDATE " \o update.document,
                   "WITH " \o updateFields.aql,
                   "IN " \o update.collection>>
              \o (IF update.oldReference
                  THEN <<"RETURN { old: OLD, new: NEW }">> ELSE << >>),
     updateFields.bindVars, updateFields.paramCounter, updateFields.writes)
RECURSIVE UpdatesLoop(_, _, _)
UpdatesLoop(us, i, st) ==
  IF i > Len(us) THEN st
  ELSE UpdatesLoop(us, i + 1,
         PushUpdate(st, us[i],
                    documentToAql(us[i].updateFields, st.bindVars,
                                  st.paramCounter, st.writes)))
EmitUpdatesEnhanced(q, st) == UpdatesLoop(q.updatesEnhanced, 1, st)

EmitReturn(q, st) ==
  IF q.returnValue # Undefined
  THEN PushResultSameCounter(st, "RETURN ",
         expressionToAql(q.returnValue, st.bindVars, st.paramCounter, st.writes))
  ELSE st

\* if (query.raw) return { query: query.raw, bindVars: query.rawBindVars || {} }
RawMode(q) == q.raw # ""

\* the sections with SORT run before the pre-collect filters
ClauseOrderSortsFirst ==
  <<"with", "for", "joins", "letsPreCollect", "searches", "sorts", "filters",
    "collects", "traversals", "prunes", "lets", "filtersPostCollect", "windows",
    "limit", "operations", "upserts", "updatesEnhanced", "return">>

\* the sections of buildQuery, in the order in which the function runs them
ClauseOrder ==
  <<"with", "for", "joins", "letsPreCollect", "searches", "filters", "collects",
    "traversals", "prunes", "lets", "filtersPostCollect", "sorts", "windows",
    "limit", "operations", "upserts", "updatesEnhanced", "return">>

EmitClause(kind, q, st) ==
  CASE kind = "with" -> EmitWith(q, st)
    [] kind = "for" -> EmitFor(q, st)
    [] kind = "joins" -> EmitJoins(q, st)
    [] kind = "letsPreCollect" -> EmitLetsPreCollect(q, st)
    [] kind = "searches" -> EmitSearches(q, st)
    [] kind = "filters" -> EmitFilters(q, st)
    [] kind = "collects" -> EmitCollects(q, st)
    [] kind = "traversals" -> EmitTraversals(q, st)
    [] kind = "prunes" -> EmitPrunes(q, st)
    [] kind = "lets" -> EmitLets(q, st)
    [] kind = "filtersPostCollect" -> EmitFiltersPostCollect(q, st)
    [] kind = "sorts" -> EmitSorts(q, st)
    [] kind = "windows" -> EmitWindows(q, st)
    [] kind = "limit" -> EmitLimit(q, st)
    [] kind = "operations" -> EmitOperations(q, st)
    [] kind = "upserts" -> EmitUpserts(q, st)
    [] kind = "updatesEnhanced" -> EmitUpdatesEnhanced(q, st)
    [] kind = "return" -> EmitReturn(q, st)

RECURSIVE EmitAll(_, _, _, _)
EmitAll(order, i, q, st) ==
  IF i > Len(order) THEN st
  ELSE EmitAll(order, i + 1, q, EmitClause(order[i], q, st))

\* buildQuery, with the parts array it joins and the log of the writes it
\* makes to bindVars
TraceOf(st) ==
  [query |-> Join(st.parts, "\n"), bindVars |-> st.bindVars,
   parts |-> st.parts, writes |-> st.writes]
buildQueryTrace(q) ==
  IF RawMode(q) THEN
    [query |-> q.raw,
     bindVars |-> IF q.rawBindVars = Undefined THEN EmptyMap ELSE q.rawBindVars,
     parts |-> << >>,
     writes |-> << >>]
  ELSE TraceOf(EmitAll(ClauseOrder, 1, q, St(<< >>, EmptyMap, 0, << >>)))

\* the GeneratedAqlQuery of a trace
ResultOf(t) == [query |-> t.query, bindVars |-> t.bindVars]
buildQuery(q) == ResultOf(buildQueryTrace(q))

\* op => !op.collection, over query.operations
SomeOpWithoutCollection(ops) == \E i \in 1..Len(ops) : ops[i].collection = ""

\* AQLBuilder.build: the value returned, or the error thrown
NoError == ""
Outcome(err, value) == [err |-> err, value |-> value]
NoValue == [query |-> "", bindVars |-> EmptyMap]

\* build without the test of the FOR source
buildWithoutSourceTest(q) ==
  IF SomeOpWithoutCollection(q.operations)
  THEN Outcome("All operations require a collection", NoValue)
  ELSE Outcome(NoError, buildQuery(q))

\* build without the test of the operations' collections
buildWithoutCollectionTest(q) ==
  IF q.variable # "" /\ ~Truthy(q.source)
  THEN Outcome("FOR " \o q.variable \o " requires an IN clause", NoValue)
  ELSE Outcome(NoError, buildQuery(q))

build(q) ==
  IF q.variable # "" /\ ~Truthy(q.source)
  THEN Outcome("FOR " \o q.variable \o " requires an IN clause", NoValue)
  ELSE IF SomeOpWithoutCollection(q.operations)
  THEN Outcome("All operations require a collection", NoValue)
  ELSE Outcome(NoError, buildQuery(q))

\* AQLBuilder.toAql: this.build().query
QueryOf(r) == [err |-> r.err, value |-> r.value.query]
toAql(q) == QueryOf(build(q))

(***************************************************************************)
(* Serialization: serializeQuery and deserializeQuery are both             *)
(* JSON.parse(JSON.stringify(x)).  JsonValue is that conversion on one     *)
(* value: a NaN number becomes null, an undefined array item becomes null, *)
(* an object entry whose value is undefined is dropped.                    *)
(***************************************************************************)
RECURSIVE JsonValue(_)
RECURSIVE JsonItems(_, _)
RECURSIVE JsonEntries(_, _)

JsonItems(items, i) ==
  IF i > Len(items) THEN << >>
  ELSE <<(IF items[i] = Undefined THEN Null ELSE JsonValue(items[i]))>>
         \o JsonItems(items, i + 1)

JsonEntries(entries, i) ==
  IF i > Len(entries) THEN << >>
  ELSE (IF entries[i][2] = Undefined THEN << >>
        ELSE << <<entries[i][1], JsonValue(entries[i][2])>> >>)
         \o JsonEntries(entries, i + 1)

JsonValue(v) ==
  IF IsNode(v) THEN
    CASE v.type = "literal" -> [v EXCEPT !.value = JsonValue(@)]
      [] v.type = "binary" ->
           [v EXCEPT !.left = JsonValue(@), !.right = JsonValue(@)]
      [] v.type = "unary" -> [v EXCEPT !.operand = JsonValue(@)]
      [] v.type = "function" -> [v EXCEPT !.args = JsonItems(@, 1)]
      [] v.type = "ternary" ->
           [v EXCEPT !.condition = JsonValue(@), !.thenValue = JsonValue(@),
                     !.elseValue = JsonValue(@)]
      [] v.type \in {"like", "regex"} -> [v EXCEPT !.expression = JsonValue(@)]
      [] v.type = "graph" ->
           [v EXCEPT !.minDepth = JsonValue(@), !.maxDepth = JsonValue(@),
                     !.options = JsonValue(@)]
      [] OTHER -> v
  ELSE
    CASE v.js = "number" -> IF "nan" \in DOMAIN v THEN Null ELSE v
      [] v.js = "array" -> Arr(JsonItems(v.items, 1))
      [] v.js = "object" -> Obj(JsonEntries(v.entries, 1))
      [] v.js = "generated" ->
           Generated(v.query, [k \in DOMAIN v.bindVars |-> JsonValue(v.bindVars[k])])
      [] OTHER -> v

JsonMap(m) == [k \in DOMAIN m |-> JsonValue(m[k])]

\* JSON.parse(JSON.stringify(query)) on the Query record
JsonQuery(q) ==
  [q EXCEPT
     !.source = JsonValue(@),
     !.filters = JsonItems(@, 1),
     !.filtersPostCollect = JsonItems(@, 1),
     !.joins = [i \in 1..Len(@) |-> [@[i] EXCEPT !.source = JsonValue(@)]],
     !.lets = [i \in 1..Len(@) |-> [@[i] EXCEPT !.expression = JsonValue(@)]],
     !.letsPreCollect =
        [i \in 1..Len(@) |-> [@[i] EXCEPT !.expression = JsonValue(@)]],
     !.limit = JsonValue(@),
     !.offset = JsonValue(@),
     !.operations = [i \in 1..Len(@) |-> [@[i] EXCEPT !.document = JsonValue(@)]],
     !.upserts = [i \in 1..Len(@) |->
                    [@[i] EXCEPT !.searchDoc = JsonValue(@),
                                 !.insertDoc = JsonValue(@),
                                 !.updateDoc = JsonValue(@)]],
     !.updatesEnhanced =
        [i \in 1..Len(@) |-> [@[i] EXCEPT !.updateFields = JsonValue(@)]],
     !.searches = [i \in 1..Len(@) |->
                     [@[i] EXCEPT !.conditions = JsonItems(@, 1)]],
     !.traversals = [i \in 1..Len(@) |-> [@[i] EXCEPT !.maxDepth = JsonValue(@)]],
     !.prunes = [i \in 1..Len(@) |-> [@[i] EXCEPT !.condition = JsonValue(@)]],
     !.windows = [i \in 1..Len(@) |-> [@[i] EXCEPT !.aggregation = JsonValue(@)]],
     !.returnValue = JsonValue(@),
     !.rawBindVars = IF @ = Undefined THEN Undefined ELSE JsonMap(@)]

serializeQuery(q) == JsonQuery(q)
\* deserializeQuery that does not take over a loop variable without a source
deserializeQueryValidating(json) ==
  IF json.variable # "" /\ json.source = Undefined
  THEN [JsonQuery(json) EXCEPT !.variable = ""]
  ELSE JsonQuery(json)

\* the record of the builder that deserializeQuery returns
deserializeQuery(json) == JsonQuery(json)

(***************************************************************************)
(* ExpressionBuilder combinators used to build the inputs of the calls     *)
(***************************************************************************)
\* toExpression: a value that is not an expression becomes a literal node
toExpression(value) ==
  IF IsNode(value) THEN value ELSE [type |-> "literal", value |-> value]

ref(name) == [type |-> "reference", name |-> name]
Binary(op, left, value) ==
  [type |-> "binary", operator |-> op, left |-> left, right |-> toExpression(value)]
gte(left, value) == Binary(">=", left, value)
eq(left, value) == Binary("==", left, value)
gt(left, value) == Binary(">", left, value)
add(left, value) == Binary("+", left, value)
\* ExpressionBuilder.in / notIn: an array is wrapped as it is
ArrayOrExpression(values) ==
  IF ~IsNode(values) /\ values.js = "array"
  THEN [type |-> "literal", value |-> values] ELSE toExpression(values)
in(left, values) ==
  [type |-> "binary", operator |-> "IN", left |-> left,
   right |-> ArrayOrExpression(values)]
notIn(left, values) ==
  [type |-> "binary", operator |-> "NOT IN", left |-> left,
   right |-> ArrayOrExpression(values)]
\* ExpressionBuilder.like / regex; the flags "" stand for flags left out
like(expression, pattern, caseInsensitive) ==
  [type |-> "like", expression |-> expression, pattern |-> pattern,
   caseInsensitive |-> caseInsensitive]
regex(expression, pattern, flags) ==
  [type |-> "regex", expression |-> expression, pattern |-> pattern,
   flags |-> flags]
FunctionCall(name, args) == [type |-> "function", name |-> name, args |-> args]
\* OldBuilder.field, reached through the proxy of createOldBuilder
OldField(fieldName) == [type |-> "old", path |-> "OLD." \o fieldName]
range(start, end) == [type |-> "range", start |-> start, end |-> end]

\* extractVariableName: the name of a reference, or of a plain string
extractVariableName(v) == IF IsNode(v) THEN v.name ELSE v.s

\* AQLBuilder.expressionToString
expressionToString(expr) ==
  IF IsNode(expr) THEN expressionToAql(expr, EmptyMap, 0, << >>).aql
  ELSE CASE expr.js = "generated" -> "(" \o expr.query \o ")"
         [] expr.js = "string" -> expr.s
         [] expr.js = "number" -> NumberToString(expr)
         [] expr.js = "boolean" -> IF expr.b THEN "true" ELSE "false"
         [] expr.js = "null" -> "null"
         [] expr.js = "undefined" -> "undefined"
         [] OTHER -> "[object Object]"

(***************************************************************************)
(* The builder: its Query record, the join that source calls write to,     *)
(* the sub-builder a caller may hold, and what the last call returned.     *)
(***************************************************************************)
VARIABLES
  query,        \* AQLBuilder.query
  currentJoin,  \* index in query.joins of AQLBuilder.currentJoin, 0 if undefined
  stage,        \* the CollectBuilder / CollectKeepBuilder / Upsert*Builder in hand
  result,       \* what the last call returned: the outcome of build() or
                \* toAql(), NoResult when it returned a builder
  lastCall,     \* the last method called and the error it threw, if any
  remaining     \* number of fluent calls the caller has yet to make

vars == <<query, currentJoin, stage, result, lastCall, remaining>>

\* the number of fluent calls explored on one builder
MaxCalls == 3
\* the same, for the calls that concern COLLECT and its two sides
MaxCollectCalls == 4
\* the same, for the calls that declare loops and their sources
MaxJoinCalls == 4

\* new AQLBuilder(): this.query = {}
EmptyQuery ==
  [collection |-> "", variable |-> "", source |-> Undefined,
   filters |-> << >>, filtersPostCollect |-> << >>, joins |-> << >>,
   lets |-> << >>, letsPreCollect |-> << >>, collects |-> << >>,
   sorts |-> << >>, limit |-> Undefined, offset |-> Undefined,
   operations |-> << >>, upserts |-> << >>, updatesEnhanced |-> << >>,
   multipleLoopVars |-> Undefined, searches |-> << >>, traversals |-> << >>,
   prunes |-> << >>, windows |-> << >>, withCollections |-> << >>,
   returnValue |-> Undefined, raw |-> "", rawBindVars |-> Undefined]

NoStage == [kind |-> "none"]
NoResult == [err |-> "none", value |-> NoValue]
Call(op, args, err) == [op |-> op, args |-> args, err |-> err]

\* new AQLBuilder()
NewBuilder ==
  /\ query = EmptyQuery
  /\ currentJoin = 0
  /\ stage = NoStage
  /\ result = NoResult
  /\ lastCall = Call("new", << >>, NoError)

Init == NewBuilder /\ remaining = MaxCalls

\* a fluent call that returned normally
Fluent(op, args) ==
  /\ remaining > 0
  /\ remaining' = remaining - 1
  /\ lastCall' = Call(op, args, NoError)
  /\ result' = NoResult

\* a call on a staged builder that only returns the next stage: it reads and
\* writes nothing of the AQLBuilder
Staged(op, args) ==
  /\ lastCall' = Call(op, args, NoError)
  /\ result' = NoResult
  /\ UNCHANGED remaining

(***************************************************************************)
(* The values the calls are given                                          *)
(***************************************************************************)
AgeFilter == gte(ref("u.age"), Num(18))
NaNFilter == eq(ref("u.score"), NaN)
\* ref('u.age').gte('@minAge')
ParamFilter == gte(ref("u.age"), Str("@minAge"))
\* ref('u.role').in(['admin', 'editor']), ref('u.age').notIn([13, 14])
InFilter == in(ref("u.role"), Arr(<<Str("admin"), Str("editor")>>))
NotInFilter == notIn(ref("u.age"), Arr(<<Num(13), Num(14)>>))
\* ref('u.name').like('A%'), ref('u.email').like('%EXAMPLE.com', true)
LikeFilter == like(ref("u.name"), "A%", FALSE)
LikeInsensitiveFilter == like(ref("u.email"), "%EXAMPLE.com", TRUE)
\* ref('u.name').regex('^[a-z]+$', 'i')
RegexFilter == regex(ref("u.name"), "^[a-z]+$", "i")
FilterInputs == {AgeFilter, NaNFilter, ParamFilter, InFilter, NotInFilter,
                 LikeFilter, LikeInsensitiveFilter, RegexFilter}
DocAlice == Obj(<< <<"name", Str("Alice")>>, <<"age", Num(30)>> >>)
DocVisits == Obj(<< <<"visits", add(ref("OLD.visits"), Num(1))>> >>)
DocInputs == {DocAlice, DocVisits}
OldVisits == Obj(<< <<"visits", add(OldField("visits"), Num(1))>> >>)
SearchCondition == eq(ref("d.title"), Str("db"))
PruneCondition == eq(ref("v.kind"), Str("leaf"))
WindowAggregation == FunctionCall("SUM", <<add(ref("t.val"), Num(2))>>)
LetExpression == add(ref("u.age"), Num(1))
RawTexts == {"", "FOR u IN users FILTER u.age > @age RETURN u"}
RawVars == {Undefined, [k \in {"age"} |-> Num(18)]}
SourceInputs == {Str("users"), Str("@@coll"), range(1, 3)}
GraphInputs ==
  {[graph |-> "g", direction |-> "OUTBOUND", startVertex |-> Str("users/123"),
    minDepth |-> Num(1), maxDepth |-> Num(3), options |-> Undefined],
   [graph |-> "g", direction |-> "ANY", startVertex |-> Str("@start"),
    minDepth |-> Undefined, maxDepth |-> Undefined,
    options |-> Obj(<< <<"bfs", Bool(TRUE)>> >>)],
   [graph |-> "g", direction |-> "INBOUND", startVertex |-> Str("users/123"),
    minDepth |-> Num(2), maxDepth |-> Undefined, options |-> Undefined],
   [graph |-> "g", direction |-> "OUTBOUND", startVertex |-> Str("users/123"),
    minDepth |-> Num(0), maxDepth |-> Num(2), options |-> Undefined],
   [graph |-> "g", direction |-> "INBOUND", startVertex |-> Str("\"users/9\""),
    minDepth |-> Num(1), maxDepth |-> Num(2), options |-> Undefined],
   [graph |-> "g", direction |-> "ANY", startVertex |-> Str("v"),
    minDepth |-> Num(1), maxDepth |-> Num(2), options |-> Undefined]}
CollectVariables == << <<"status", Str("o.status")>> >>
\* the sub-builders given to let(): one that builds and one that throws
SubQuery ==
  [EmptyQuery EXCEPT !.variable = "o", !.collection = "orders",
                     !.source = Str("orders"),
                     !.filters = <<gt(ref("o.total"), Num(100))>>,
                     !.returnValue = Str("o")]
SubQueryNoSource == [EmptyQuery EXCEPT !.variable = "o"]
SubQueryInputs == {SubQuery, SubQueryNoSource}
LimitCounts == {-1, 10}
LimitOffsets == {Undefined, Num(-1), Num(5)}
OffsetInputs == {-1, 5}

(***************************************************************************)
(* The fluent calls                                                        *)
(***************************************************************************)
\* AQLBuilder.raw, called in place of the constructor
Raw ==
  /\ lastCall.op = "new"
  /\ \E text \in RawTexts, bv \in RawVars :
       query' = [EmptyQuery EXCEPT !.raw = text, !.rawBindVars = bv]
  /\ lastCall' = Call("raw", << >>, NoError)
  /\ UNCHANGED <<currentJoin, stage, result, remaining>>

With ==
  /\ Fluent("with", << >>)
  /\ query' = [query EXCEPT !.withCollections = @ \o <<"users", "orders">>]
  /\ UNCHANGED <<currentJoin, stage>>

\* for() that puts a later loop in front of the joins already there
ForPrependingJoin ==
  /\ \E variableName \in {Str("u"), ref("o")} :
     /\ Fluent("for", <<variableName>>)
     /\ IF query.variable # ""
        THEN /\ query' = [query EXCEPT
                            !.joins = <<[variable |-> extractVariableName(variableName),
                                         source |-> Str("")]>> \o @]
             /\ currentJoin' = 1
        ELSE /\ query' = [query EXCEPT !.variable = extractVariableName(variableName)]
             /\ UNCHANGED currentJoin
  /\ UNCHANGED stage

For ==
  /\ \E variableName \in {Str("u"), ref("o")} :
     /\ Fluent("for", <<variableName>>)
     /\ LET varName == extractVariableName(variableName)
       IN IF query.variable # ""
          THEN /\ query' = [query EXCEPT
                              !.joins = Append(@, [variable |-> varName,
                                                   source |-> Str("")])]
               /\ currentJoin' = Len(query.joins) + 1
          ELSE /\ query' = [query EXCEPT !.variable = varName]
               /\ UNCHANGED currentJoin
  /\ UNCHANGED stage

\* in() that writes the primary source whatever join there is
InIgnoringJoin ==
  /\ \E source \in SourceInputs :
     /\ Fluent("in", <<source>>)
     /\ IF ~IsNode(source) /\ source.js = "string"
        THEN IF StartsWith(source.s, "@@") \/ StartsWith(source.s, "@")
             THEN query' = [query EXCEPT !.source = source]
             ELSE query' = [query EXCEPT !.collection = source.s,
                                         !.source = source]
        ELSE query' = [query EXCEPT !.source = source]
  /\ UNCHANGED <<currentJoin, stage>>

In ==
  /\ \E source \in SourceInputs :
     /\ Fluent("in", <<source>>)
     /\ IF currentJoin # 0
       THEN query' = [query EXCEPT !.joins[currentJoin].source = source]
       ELSE IF ~IsNode(source) /\ source.js = "string"
         THEN IF StartsWith(source.s, "@@") \/ StartsWith(source.s, "@")
              THEN query' = [query EXCEPT !.source = source]
              ELSE query' = [query EXCEPT !.collection = source.s,
                                          !.source = source]
         ELSE query' = [query EXCEPT !.source = source]
  /\ UNCHANGED <<currentJoin, stage>>

InEdge ==
  /\ \E collection \in {"follows"} :
     /\ Fluent("inEdge", <<collection>>)
     /\ IF currentJoin # 0
       THEN query' = [query EXCEPT !.joins[currentJoin].source = Str(collection)]
       ELSE query' = [query EXCEPT !.collection = collection,
                                   !.source = Str(collection)]
  /\ UNCHANGED <<currentJoin, stage>>

InGraph ==
  /\ \E options \in GraphInputs :
     /\ Fluent("inGraph", <<options>>)
     /\ LET startVertex == expressionToString(options.startVertex)
           graphSource ==
             [type |-> "graph", graph |-> options.graph,
              direction |-> options.direction, startVertex |-> startVertex,
              minDepth |-> IF Truthy(options.minDepth)
                           THEN options.minDepth ELSE Num(1),
              maxDepth |-> options.maxDepth, options |-> options.options]
       IN IF currentJoin # 0
          THEN query' = [query EXCEPT !.joins[currentJoin].source = graphSource]
          ELSE query' = [query EXCEPT !.source = graphSource]
  /\ UNCHANGED <<currentJoin, stage>>

\* filter() that does not look at collects
FilterIgnoringCollects ==
  /\ \E expr \in FilterInputs :
     /\ Fluent("filter", <<expr>>)
     /\ query' = [query EXCEPT !.filters = Append(@, expr)]
  /\ UNCHANGED <<currentJoin, stage>>

Filter ==
  /\ \E expr \in FilterInputs :
     /\ Fluent("filter", <<expr>>)
     /\ IF Len(query.collects) > 0
       THEN query' = [query EXCEPT !.filtersPostCollect = Append(@, expr)]
       ELSE query' = [query EXCEPT !.filters = Append(@, expr)]
  /\ UNCHANGED <<currentJoin, stage>>

Insert ==
  /\ \E document \in DocInputs :
     /\ Fluent("insert", <<document>>)
     /\ query' = [query EXCEPT !.operations =
                   Append(@, [type |-> "INSERT", document |-> document,
                              collection |-> "", variable |-> ""])]
  /\ UNCHANGED <<currentJoin, stage>>

\* into() that sets the collection of every operation
IntoEveryOperation ==
  /\ \E collection \in {"users", "orders"} :
     /\ Fluent("into", <<collection>>)
     /\ query' = [query EXCEPT !.operations =
                    [i \in 1..Len(@) |-> [@[i] EXCEPT !.collection = collection]]]
  /\ UNCHANGED <<currentJoin, stage>>

Into ==
  /\ \E collection \in {"users", "orders"} :
     /\ Fluent("into", <<collection>>)
     /\ IF Len(query.operations) > 0
       THEN query' = [query EXCEPT
                        !.operations[Len(query.operations)].collection = collection]
       ELSE UNCHANGED query
  /\ UNCHANGED <<currentJoin, stage>>

Replace ==
  /\ Fluent("replace", << >>)
  /\ LET varName == extractVariableName(Str("u"))
     IN query' = [query EXCEPT !.operations =
                    Append(@, [type |-> "REPLACE", document |-> Str(varName),
                               collection |-> "", variable |-> varName])]
  /\ UNCHANGED <<currentJoin, stage>>

Remove ==
  /\ Fluent("remove", << >>)
  /\ LET varName == extractVariableName(ref("u"))
     IN query' = [query EXCEPT !.operations =
                    Append(@, [type |-> "REMOVE", document |-> Str(varName),
                               collection |-> "", variable |-> varName])]
  /\ UNCHANGED <<currentJoin, stage>>

Sort ==
  /\ Fluent("sort", << >>)
  /\ query' = [query EXCEPT !.sorts =
                 Append(@, [field |-> "u.name", direction |-> "ASC"])]
  /\ UNCHANGED <<currentJoin, stage>>

Return ==
  /\ \E value \in {Str("u"), gte(ref("u.age"), Num(21))} :
     /\ Fluent("return", <<value>>)
     /\ query' = [query EXCEPT !.returnValue = value]
  /\ UNCHANGED <<currentJoin, stage>>

\* limit() that assigns whatever it is given
LimitWithoutTest ==
  /\ \E count \in LimitCounts, offset \in LimitOffsets :
       /\ Fluent("limit", <<Num(count), offset>>)
       /\ query' = [query EXCEPT
                      !.limit = Num(count),
                      !.offset = IF offset = Undefined THEN Num(0) ELSE offset]
  /\ UNCHANGED <<currentJoin, stage>>

\* limit(count, offset?): a negative argument throws before any assignment
Limit ==
  /\ remaining > 0
  /\ remaining' = remaining - 1
  /\ \E count \in LimitCounts, offset \in LimitOffsets :
       IF count < 0
       THEN /\ lastCall' = Call("limit", <<Num(count), offset>>,
                             "LIMIT count must be non-negative")
            /\ UNCHANGED query
       ELSE IF offset # Undefined /\ offset.n < 0
       THEN /\ lastCall' = Call("limit", <<Num(count), offset>>,
                             "LIMIT offset must be non-negative")
            /\ UNCHANGED query
       ELSE /\ lastCall' = Call("limit", <<Num(count), offset>>, NoError)
            /\ query' = [query EXCEPT
                           !.limit = Num(count),
                           !.offset = IF offset = Undefined THEN Num(0) ELSE offset]
  /\ result' = NoResult
  /\ UNCHANGED <<currentJoin, stage>>

\* offset(offset): `offset < 0` throws before the assignment; NaN < 0 is false
IsNegative(v) == "n" \in DOMAIN v /\ v.n < 0
Offset ==
  /\ remaining > 0
  /\ remaining' = remaining - 1
  /\ \E offset \in {Num(o) : o \in OffsetInputs} \cup {NaN} :
       IF IsNegative(offset)
       THEN /\ lastCall' = Call("offset", <<offset>>, "OFFSET must be non-negative")
            /\ UNCHANGED query
       ELSE /\ lastCall' = Call("offset", <<offset>>, NoError)
            /\ query' = [query EXCEPT !.offset = offset]
  /\ result' = NoResult
  /\ UNCHANGED <<currentJoin, stage>>

\* collect(variables): a CollectBuilder; the record is not touched
Collect ==
  /\ Fluent("collect", << >>)
  /\ stage' = [kind |-> "CollectBuilder", variables |-> CollectVariables,
               aggregations |-> << >>]
  /\ UNCHANGED <<query, currentJoin>>

\* Map.set: replace the entry of that name, or add it at the end
MapSet(m, name, value) ==
  IF \E i \in 1..Len(m) : m[i].name = name
  THEN [i \in 1..Len(m) |-> IF m[i].name = name THEN value ELSE m[i]]
  ELSE Append(m, value)

\* CollectBuilder.count / sum / average / min / max
CollectAggregation ==
  /\ stage.kind = "CollectBuilder"
  /\ \E a \in {[name |-> "c", function |-> "COUNT", expression |-> Num(1)],
               [name |-> "t", function |-> "SUM", expression |-> ref("o.amount")],
               [name |-> "s", function |-> "SUM",
                expression |-> add(ref("o.amount"), Num(1))]} :
       /\ Fluent(a.function, <<a.name>>)
       /\ stage' = [stage EXCEPT !.aggregations = MapSet(@, a.name, a)]
  /\ UNCHANGED <<query, currentJoin>>

\* the variables and aggregates that CollectBuilder.build and .into compute
CollectVariablesOf(b) ==
  [i \in 1..Len(b.variables) |->
     [key |-> b.variables[i][1], value |-> expressionToString(b.variables[i][2])]]
CollectAggregatesOf(b) ==
  [i \in 1..Len(b.aggregations) |->
     [name |-> b.aggregations[i].name,
      expression |-> b.aggregations[i].function \o "("
                       \o expressionToString(b.aggregations[i].expression) \o ")"]]

\* _addCollectWithAggregation
addCollectWithAggregation(q, collect) == [q EXCEPT !.collects = Append(@, collect)]

\* CollectBuilder.build
CollectBuild ==
  /\ stage.kind = "CollectBuilder"
  /\ Fluent("collect.build", << >>)
  /\ query' = addCollectWithAggregation(query,
                [variables |-> CollectVariablesOf(stage), into |-> "",
                 aggregate |-> CollectAggregatesOf(stage), keep |-> << >>])
  /\ UNCHANGED <<currentJoin, stage>>

\* CollectBuilder.into
CollectInto ==
  /\ stage.kind = "CollectBuilder"
  /\ Fluent("collect.into", << >>)
  /\ query' = addCollectWithAggregation(query,
                [variables |-> CollectVariablesOf(stage), into |-> "g",
                 aggregate |-> CollectAggregatesOf(stage), keep |-> << >>])
  /\ UNCHANGED <<currentJoin, stage>>

\* sort() of the sub-builder that also pushes the COLLECT it was building
CollectSortPushing ==
  /\ stage.kind \in {"CollectBuilder", "CollectKeepBuilder"}
  /\ Fluent("collect.sort", << >>)
  /\ query' = [query EXCEPT
                 !.sorts = Append(@, [field |-> "status", direction |-> "DESC"]),
                 !.collects = Append(@, [variables |-> << >>, into |-> "",
                                         aggregate |-> << >>, keep |-> << >>])]
  /\ UNCHANGED <<currentJoin, stage>>

\* CollectBuilder.sort and CollectKeepBuilder.sort: this.builder.sort(...)
CollectSort ==
  /\ stage.kind \in {"CollectBuilder", "CollectKeepBuilder"}
  /\ Fluent("collect.sort", << >>)
  /\ query' = [query EXCEPT !.sorts =
                 Append(@, [field |-> "status", direction |-> "DESC"])]
  /\ UNCHANGED <<currentJoin, stage>>

\* collectKeep(variables, keep): a CollectKeepBuilder
CollectKeep ==
  /\ Fluent("collectKeep", << >>)
  /\ stage' = [kind |-> "CollectKeepBuilder", variables |-> CollectVariables,
               fields |-> <<"name", "age">>]
  /\ UNCHANGED <<query, currentJoin>>

\* _addCollectKeep
addCollectKeep(q, collect) ==
  [q EXCEPT !.collects =
     Append(@, [variables |->
                  [i \in 1..Len(collect.variables) |->
                     [key |-> collect.variables[i][1],
                      value |-> expressionToString(collect.variables[i][2])]],
                into |-> collect.into,
                aggregate |->
                  [i \in 1..Len(collect.aggregate) |->
                     [name |-> collect.aggregate[i][1],
                      expression |-> expressionToString(collect.aggregate[i][2])]],
                keep |-> collect.keep])]

\* CollectKeepBuilder.into
CollectKeepInto ==
  /\ stage.kind = "CollectKeepBuilder"
  /\ Fluent("collectKeep.into", << >>)
  /\ query' = addCollectKeep(query,
                [variables |-> stage.variables, into |-> "g",
                 aggregate |-> << >>, keep |-> stage.fields])
  /\ UNCHANGED <<currentJoin, stage>>

\* CollectKeepBuilder.aggregate
CollectKeepAggregate ==
  /\ stage.kind = "CollectKeepBuilder"
  /\ Fluent("collectKeep.aggregate", << >>)
  /\ query' = addCollectKeep(query,
                [variables |-> stage.variables, into |-> "",
                 aggregate |-> << <<"total",
                                    FunctionCall("SUM", <<ref("o.amount")>>)>> >>,
                 keep |-> stage.fields])
  /\ UNCHANGED <<currentJoin, stage>>

\* upsert(searchDoc): an UpsertBuilder
Upsert ==
  /\ Fluent("upsert", << >>)
  /\ stage' = [kind |-> "UpsertBuilder",
               searchDoc |-> Obj(<< <<"email", Str("a@b.c")>> >>)]
  /\ UNCHANGED <<query, currentJoin>>

\* insert() that already pushes an entry, without update document and collection
UpsertInsertPushing ==
  /\ stage.kind = "UpsertBuilder"
  /\ Staged("upsert.insert", << >>)
  /\ stage' = [kind |-> "UpsertUpdateBuilder", searchDoc |-> stage.searchDoc,
               insertDoc |-> DocAlice]
  /\ query' = [query EXCEPT !.upserts =
                 Append(@, [type |-> "UPSERT", searchDoc |-> stage.searchDoc,
                            insertDoc |-> DocAlice, updateDoc |-> Undefined,
                            collection |-> ""])]
  /\ UNCHANGED currentJoin

\* UpsertBuilder.insert: an UpsertUpdateBuilder
UpsertInsert ==
  /\ stage.kind = "UpsertBuilder"
  /\ Staged("upsert.insert", << >>)
  /\ stage' = [kind |-> "UpsertUpdateBuilder", searchDoc |-> stage.searchDoc,
               insertDoc |-> DocAlice]
  /\ UNCHANGED <<query, currentJoin>>

\* UpsertUpdateBuilder.update: an UpsertIntoBuilder
UpsertUpdate ==
  /\ stage.kind = "UpsertUpdateBuilder"
  /\ Staged("upsert.update", << >>)
  /\ stage' = [kind |-> "UpsertIntoBuilder", searchDoc |-> stage.searchDoc,
               insertDoc |-> stage.insertDoc, updateDoc |-> DocVisits]
  /\ UNCHANGED <<query, currentJoin>>

\* UpsertIntoBuilder.into: _addUpsert
UpsertInto ==
  /\ stage.kind = "UpsertIntoBuilder"
  /\ Fluent("upsert.into", << >>)
  /\ query' = [query EXCEPT !.upserts =
                 Append(@, [type |-> "UPSERT", searchDoc |-> stage.searchDoc,
                            insertDoc |-> stage.insertDoc,
                            updateDoc |-> stage.updateDoc,
                            collection |-> "users"])]
  /\ UNCHANGED <<currentJoin, stage>>

\* updateWith() that does not take the primary collection into the entry
UpdateWithNoCollection ==
  /\ Fluent("updateWith", << >>)
  /\ LET docName == extractVariableName(ref("u"))
     IN query' = [query EXCEPT !.updatesEnhanced =
                    Append(@, [type |-> "UPDATE", document |-> docName,
                               updateFields |-> Obj(<< <<"status", Str("active")>>,
                                                       <<"level", Num(7)>> >>),
                               collection |-> "",
                               variable |-> query.variable,
                               oldReference |-> FALSE])]
  /\ UNCHANGED <<currentJoin, stage>>

UpdateWith ==
  /\ Fluent("updateWith", << >>)
  /\ LET docName == extractVariableName(ref("u"))
     IN query' = [query EXCEPT !.updatesEnhanced =
                    Append(@, [type |-> "UPDATE", document |-> docName,
                               updateFields |-> Obj(<< <<"status", Str("active")>>,
                                                       <<"level", Num(7)>> >>),
                               collection |-> query.collection,
                               variable |-> query.variable,
                               oldReference |-> FALSE])]
  /\ UNCHANGED <<currentJoin, stage>>

UpdateWithOld ==
  /\ Fluent("updateWithOld", << >>)
  /\ query' = [query EXCEPT !.updatesEnhanced =
                 Append(@, [type |-> "UPDATE", document |-> "u",
                            updateFields |-> OldVisits,
                            collection |-> query.collection,
                            variable |-> query.variable,
                            oldReference |-> TRUE])]
  /\ UNCHANGED <<currentJoin, stage>>

ForMultiple ==
  /\ \E edge \in {"", "e"} :
     /\ Fluent("forMultiple", <<edge>>)
     /\ query' = [query EXCEPT !.multipleLoopVars =
                   [vertex |-> "v", edge |-> edge, path |-> ""]]
  /\ UNCHANGED <<currentJoin, stage>>

Search ==
  /\ Fluent("search", << >>)
  /\ query' = [query EXCEPT !.searches =
                 Append(@, [type |-> "search", view |-> "docsView",
                            conditions |-> <<SearchCondition>>])]
  /\ UNCHANGED <<currentJoin, stage>>

Traverse ==
  /\ \E maxDepth \in {Undefined, Num(2)} :
     /\ Fluent("traverse", <<maxDepth>>)
     /\ query' = [query EXCEPT !.traversals =
                   Append(@, [type |-> "traverse", variable |-> "v",
                              path |-> "p", maxDepth |-> maxDepth])]
  /\ UNCHANGED <<currentJoin, stage>>

Prune ==
  /\ Fluent("prune", << >>)
  /\ query' = [query EXCEPT !.prunes =
                 Append(@, [type |-> "prune", condition |-> PruneCondition])]
  /\ UNCHANGED <<currentJoin, stage>>

Window ==
  /\ Fluent("window", << >>)
  /\ query' = [query EXCEPT !.windows =
                 Append(@, [type |-> "window", preceding |-> 1, following |-> 2,
                            aggregation |-> WindowAggregation])]
  /\ UNCHANGED <<currentJoin, stage>>

\* let() that does not look at collects
LetIgnoringCollects ==
  /\ Fluent("let", <<LetExpression>>)
  /\ query' = [query EXCEPT !.letsPreCollect =
                 Append(@, [variable |-> "x", expression |-> LetExpression])]
  /\ UNCHANGED <<currentJoin, stage>>

\* let(variableName, expression) with an expression or a value
Let ==
  /\ Fluent("let", <<LetExpression>>)
  /\ LET letClause == [variable |-> "x", expression |-> LetExpression]
     IN IF Len(query.collects) > 0
        THEN query' = [query EXCEPT !.lets = Append(@, letClause)]
        ELSE query' = [query EXCEPT !.letsPreCollect = Append(@, letClause)]
  /\ UNCHANGED <<currentJoin, stage>>

\* let(variableName, builder): expression.build() first, which may throw;
\* built is what it returned
LetBuilt(sub, built) ==
  IF built.err # NoError
  THEN /\ lastCall' = Call("let", <<sub>>, built.err)
       /\ UNCHANGED query
  ELSE /\ lastCall' = Call("let", <<sub>>, NoError)
       /\ IF Len(query.collects) > 0
          THEN query' = [query EXCEPT !.lets = Append(@,
                 [variable |-> "orders",
                  expression |-> Generated(built.value.query, built.value.bindVars)])]
          ELSE query' = [query EXCEPT !.letsPreCollect = Append(@,
                 [variable |-> "orders",
                  expression |-> Generated(built.value.query, built.value.bindVars)])]
LetSubquery ==
  /\ remaining > 0
  /\ remaining' = remaining - 1
  /\ \E sub \in SubQueryInputs : LetBuilt(sub, build(sub))
  /\ result' = NoResult
  /\ UNCHANGED <<currentJoin, stage>>

\* AQLBuilder.fromJSON(builder.toJSON()): the caller goes on with the restored
\* builder, whose currentJoin is undefined
FromJSON ==
  /\ Fluent("fromJSON", << >>)
  /\ query' = deserializeQuery(serializeQuery(query))
  /\ currentJoin' = 0
  /\ UNCHANGED stage

\* build() that moves the post-collect filters of the record into filters
BuildMergingFilters ==
  /\ result' = build(query)
  /\ lastCall' = Call("build", << >>, result'.err)
  /\ query' = [query EXCEPT !.filters = @ \o query.filtersPostCollect,
                            !.filtersPostCollect = << >>]
  /\ UNCHANGED <<currentJoin, stage, remaining>>

\* build(): the record is only read
Build ==
  /\ result' = build(query)
  /\ lastCall' = Call("build", << >>, result'.err)
  /\ UNCHANGED <<query, currentJoin, stage, remaining>>

\* toAql(): this.build().query; r is what it returned
ToAqlReturned(r) ==
  /\ result' = [err |-> r.err, value |-> [query |-> r.value, bindVars |-> EmptyMap]]
  /\ lastCall' = Call("toAql", << >>, r.err)
ToAql ==
  /\ ToAqlReturned(toAql(query))
  /\ UNCHANGED <<query, currentJoin, stage, remaining>>

Next ==
  \/ Raw \/ With \/ For \/ In \/ InEdge \/ InGraph \/ Filter
  \/ Insert \/ Into \/ Replace \/ Remove \/ Sort \/ Return \/ Limit \/ Offset
  \/ Collect \/ CollectAggregation \/ CollectBuild \/ CollectInto \/ CollectSort
  \/ CollectKeep \/ CollectKeepInto \/ CollectKeepAggregate
  \/ Upsert \/ UpsertInsert \/ UpsertUpdate \/ UpsertInto
  \/ UpdateWith \/ UpdateWithOld \/ ForMultiple \/ Search \/ Traverse
  \/ Prune \/ Window \/ Let \/ LetSubquery \/ FromJSON \/ Build \/ ToAql

Spec == Init /\ [][Next]_vars

\* the calls that concern COLLECT and the two sides of it
NextCollect ==
  \/ Filter \/ Let \/ LetSubquery \/ Sort
  \/ Collect \/ CollectAggregation \/ CollectBuild \/ CollectInto \/ CollectSort
  \/ CollectKeep \/ CollectKeepInto \/ CollectKeepAggregate
  \/ Build

\* the calls that declare loops and give them their sources
NextJoin ==
  \/ For \/ In \/ InEdge \/ InGraph \/ ForMultiple \/ Build

InitJoin == NewBuilder /\ remaining = MaxJoinCalls
SpecJoin == InitJoin /\ [][NextJoin]_vars

InitCollect == NewBuilder /\ remaining = MaxCollectCalls
SpecCollect == InitCollect /\ [][NextCollect]_vars

(***************************************************************************)
(* Reading a compiled text                                                 *)
(***************************************************************************)
\* n copies of a keyword
Rep(n, kw) == [i \in 1..n |-> kw]
RECURSIVE Flatten(_)
Flatten(ss) == IF ss = << >> THEN << >> ELSE Head(ss) \o Flatten(Tail(ss))

\* the first word of a line
RECURSIVE WordEnd(_, _)
WordEnd(s, i) ==
  IF i > Len(s) \/ SubSeq(s, i, i) \in {" ", "\n"} THEN i - 1 ELSE WordEnd(s, i + 1)
KeywordOf(line) == SubSeq(line, 1, WordEnd(line, 1))
Keywords(parts) == [i \in 1..Len(parts) |-> KeywordOf(parts[i])]
\* the positions of the parts that start with a keyword
PositionsOf(parts, kw) == {i \in 1..Len(parts) : KeywordOf(parts[i]) = kw}

\* the last call was a build() that returned a compiled (not raw) text
Built ==
  /\ lastCall.op = "build"
  /\ result.err = NoError
  /\ ~RawMode(query)

\* the parts that buildQuery joined into the text that build() returned
BuiltParts == buildQueryTrace(query).parts

\* the literal values reachable from an expression or a document
RECURSIVE LiteralsIn(_)
LiteralsIn(e) ==
  IF IsNode(e) THEN
    CASE e.type = "literal" -> IF e.value = Null THEN {} ELSE {e.value}
      [] e.type = "binary" -> LiteralsIn(e.left) \cup LiteralsIn(e.right)
      [] e.type = "unary" -> LiteralsIn(e.operand)
      [] e.type = "function" ->
           UNION {LiteralsIn(e.args[i]) : i \in 1..Len(e.args)}
      [] OTHER -> {}
  ELSE CASE e.js = "object" ->
              UNION {LiteralsIn(e.entries[i][2]) : i \in 1..Len(e.entries)}
         [] e.js \in {"string", "number", "boolean", "array"} -> {e}
         [] OTHER -> {}

\* the literal values of the filters, the INSERT documents, the UPSERT
\* documents and the enhanced UPDATE field maps of a record
GuardedLiterals(q) ==
  UNION ({LiteralsIn(q.filters[i]) : i \in 1..Len(q.filters)}
    \cup {LiteralsIn(q.filtersPostCollect[i]) : i \in 1..Len(q.filtersPostCollect)}
    \cup {LiteralsIn(q.operations[i].document) :
            i \in {j \in 1..Len(q.operations) : q.operations[j].type = "INSERT"}}
    \cup {LiteralsIn(q.upserts[i].searchDoc) : i \in 1..Len(q.upserts)}
    \cup {LiteralsIn(q.upserts[i].insertDoc) : i \in 1..Len(q.upserts)}
    \cup {LiteralsIn(q.upserts[i].updateDoc) : i \in 1..Len(q.upserts)}
    \cup {LiteralsIn(q.updatesEnhanced[i].updateFields) :
            i \in 1..Len(q.updatesEnhanced)})

\* the text holds the placeholder of a name
HasPlaceholder(parts, name) ==
  \E i \in 1..Len(parts) : Includes(parts[i], "@" \o name)

(***************************************************************************)
(* C1.  Every literal value reachable from a filter, from an INSERT or     *)
(* UPSERT document or from an enhanced UPDATE field map is in the compiled *)
(* text only as a generated placeholder that bindVars maps to that value;  *)
(* a string literal is nowhere in the text between quotes.                 *)
(***************************************************************************)
C1_LiteralsAreBound ==
  Built =>
    \A v \in GuardedLiterals(query) :
      /\ \E name \in DOMAIN result.value.bindVars :
           /\ result.value.bindVars[name] = v
           /\ HasPlaceholder(BuiltParts, name)
      /\ v.js = "string" =>
           \A i \in 1..Len(BuiltParts) : ~Includes(BuiltParts[i], Quote(v.s))

(***************************************************************************)
(* C2.  During one build() no name of bindVars is written twice with       *)
(* different values, and every generated name takes a counter larger than  *)
(* that of every generated name allocated before it.                       *)
(***************************************************************************)
BuiltWrites == buildQueryTrace(query).writes
C2_NamesAreUnique ==
  Built =>
    \A i, j \in 1..Len(BuiltWrites) :
      i < j =>
        /\ BuiltWrites[i].name = BuiltWrites[j].name
             => BuiltWrites[i].value = BuiltWrites[j].value
        /\ BuiltWrites[i].gen /\ BuiltWrites[j].gen
             => BuiltWrites[i].counter < BuiltWrites[j].counter

(***************************************************************************)
(* C3.  The lines of a text that build() returns start with the keywords   *)
(* of the clauses the record holds, in the order WITH, FOR, join FORs,     *)
(* pre-collect LET, SEARCH, pre-collect FILTER, COLLECT, TRAVERSE, PRUNE,  *)
(* post-collect LET, post-collect FILTER, SORT, WINDOW, LIMIT, the         *)
(* INSERT/REPLACE/REMOVE operations, the UPSERT blocks, the enhanced       *)
(* UPDATE blocks, RETURN, whatever the order of the calls was.             *)
(***************************************************************************)
Skeleton(q) ==
  (IF Len(q.withCollections) > 0 THEN <<"WITH">> ELSE << >>)
  \o (IF q.multipleLoopVars # Undefined \/ q.variable # "" THEN <<"FOR">> ELSE << >>)
  \o Rep(Len(q.joins), "FOR")
  \o Rep(Len(q.letsPreCollect), "LET")
  \o Rep(Len(q.searches), "SEARCH")
  \o Rep(Len(q.filters), "FILTER")
  \o Rep(Len(q.collects), "COLLECT")
  \o Rep(Len(q.traversals), "TRAVERSE")
  \o Rep(Len(q.prunes), "PRUNE")
  \o Rep(Len(q.lets), "LET")
  \o Rep(Len(q.filtersPostCollect), "FILTER")
  \o (IF Len(q.sorts) > 0 THEN <<"SORT">> ELSE << >>)
  \o Rep(Len(q.windows), "WINDOW")
  \o (IF q.limit # Undefined THEN <<"LIMIT">> ELSE << >>)
  \o [i \in 1..Len(q.operations) |-> q.operations[i].type]
  \o Flatten([i \in 1..Len(q.upserts) |-> <<"UPSERT", "INSERT", "UPDATE", "IN">>])
  \o Flatten([i \in 1..Len(q.updatesEnhanced) |->
               <<"UPDATE", "WITH", "IN">>
                 \o (IF q.updatesEnhanced[i].oldReference
                     THEN <<"RETURN">> ELSE << >>)])
  \o (IF q.returnValue # Undefined THEN <<"RETURN">> ELSE << >>)

IsPrefix(s, t) == Len(s) <= Len(t) /\ SubSeq(t, 1, Len(s)) = s
\* this step is a call of op that returned normally
Called(op) ==
  lastCall'.op = op /\ lastCall'.err = NoError /\ remaining' = remaining - 1
\* among the parts that start with kw, the first n stand before every COLLECT
\* part and the others after every COLLECT part
SplitByCollect(parts, kw, n) ==
  \A i \in PositionsOf(parts, kw), c \in PositionsOf(parts, "COLLECT") :
    IF Cardinality({j \in PositionsOf(parts, kw) : j < i}) < n THEN i < c ELSE i > c

(***************************************************************************)
(* C4.  filter(e) appends e to filtersPostCollect when collects is not     *)
(* empty at the call and to filters otherwise; no call changes or removes  *)
(* an entry of either list, and collects only grows; in the text that      *)
(* build() returns the filters stand before every COLLECT part and the     *)
(* filtersPostCollect after every COLLECT part, whose AGGREGATE line is    *)
(* inside the COLLECT part.                                                *)
(***************************************************************************)
C4_FilterStep ==
  /\ Called("filter") =>
       IF Len(query.collects) > 0
       THEN /\ query'.filtersPostCollect =
                 Append(query.filtersPostCollect, lastCall'.args[1])
            /\ query'.filters = query.filters
       ELSE /\ query'.filters = Append(query.filters, lastCall'.args[1])
            /\ query'.filtersPostCollect = query.filtersPostCollect
  /\ IsPrefix(query.filters, query'.filters)
  /\ IsPrefix(query.filtersPostCollect, query'.filtersPostCollect)
  /\ IsPrefix(query.collects, query'.collects)

C4_FilterLines ==
  Built =>
    /\ Cardinality(PositionsOf(BuiltParts, "FILTER"))
         = Len(query.filters) + Len(query.filtersPostCollect)
    /\ Cardinality(PositionsOf(BuiltParts, "COLLECT")) = Len(query.collects)
    /\ SplitByCollect(BuiltParts, "FILTER", Len(query.filters))
    /\ \A i \in 1..Len(BuiltParts) :
         Includes(BuiltParts[i], "AGGREGATE") => KeywordOf(BuiltParts[i]) = "COLLECT"

LetValue(given) ==
  IF "filters" \in DOMAIN given
  THEN Generated(buildQuery(given).query, buildQuery(given).bindVars)
  ELSE given

C5_LetStep ==
  /\ Called("let") =>
       IF Len(query.collects) > 0
       THEN /\ Len(query'.lets) = Len(query.lets) + 1
            /\ query'.lets[Len(query'.lets)].expression = LetValue(lastCall'.args[1])
            /\ query'.letsPreCollect = query.letsPreCollect
       ELSE /\ Len(query'.letsPreCollect) = Len(query.letsPreCollect) + 1
            /\ query'.letsPreCollect[Len(query'.letsPreCollect)].expression
                 = LetValue(lastCall'.args[1])
            /\ query'.lets = query.lets
  /\ IsPrefix(query.lets, query'.lets)
  /\ IsPrefix(query.letsPreCollect, query'.letsPreCollect)

C5_LetLines ==
  Built =>
    /\ Cardinality(PositionsOf(BuiltParts, "LET"))
         = Len(query.letsPreCollect) + Len(query.lets)
    /\ SplitByCollect(BuiltParts, "LET", Len(query.letsPreCollect))

C5_LetSides == [][C5_LetStep]_vars /\ []C5_LetLines

\* a let from before a COLLECT and one from after it
C5_Witness ==
  /\ Built
  /\ Len(query.letsPreCollect) = 1 /\ Len(query.lets) = 1
  /\ Keywords(BuiltParts) = <<"LET", "COLLECT", "LET">>

(***************************************************************************)
(* C6.  Building the builder restored by fromJSON(toJSON()) gives the same *)
(* outcome as building the builder itself: the same text and the same      *)
(* bind-variable map, or the same error.                                   *)
(***************************************************************************)
C6_RoundTrip == build(deserializeQuery(serializeQuery(query))) = build(query)

(***************************************************************************)
(* C7.  With a primary loop variable declared and no source set for it,    *)
(* build() and toAql() throw and return neither text nor bindVars.         *)
(***************************************************************************)
C7_MissingSource ==
  (lastCall.op \in {"build", "toAql"}
     /\ query.variable # "" /\ query.source = Undefined)
    => /\ result.err = "FOR " \o query.variable \o " requires an IN clause"
       /\ result.value = NoValue

\* toAql() after for() alone
C7_Witness ==
  /\ lastCall.op = "toAql"
  /\ query.variable # "" /\ query.source = Undefined
  /\ result.err # NoError

(***************************************************************************)
(* C8.  With an operation that has no collection, build() and toAql()      *)
(* throw; in a text that build() returns every operation has its line,     *)
(* which ends with INTO or IN and the collection.                          *)
(***************************************************************************)
C8_MissingCollection ==
  /\ (lastCall.op \in {"build", "toAql"} /\ SomeOpWithoutCollection(query.operations))
       => result.err # NoError /\ result.value = NoValue
  /\ Built =>
       \A i \in 1..Len(query.operations) :
         /\ query.operations[i].collection # ""
         /\ \E k \in 1..Len(BuiltParts) :
              /\ KeywordOf(BuiltParts[k]) = query.operations[i].type
              /\ Len(BuiltParts[k]) > Len(query.operations[i].collection)
              /\ SubSeq(BuiltParts[k],
                        Len(BuiltParts[k]) - Len(query.operations[i].collection),
                        Len(BuiltParts[k]))
                   = " " \o query.operations[i].collection

\* build() after insert() alone
C8_Witness ==
  /\ lastCall.op = "build"
  /\ Len(query.operations) > 0 /\ query.operations[1].collection = ""
  /\ query.variable = ""
  /\ result.err = "All operations require a collection"

(***************************************************************************)
(* C9.  As stated: a negative count or offset raises its error when        *)
(* build() or toAql() is invoked and never during limit() or offset().     *)
(***************************************************************************)
C9_NeverMidChain == lastCall.op \in {"limit", "offset"} => lastCall.err = NoError

(***************************************************************************)
(* C9, as the code has it: limit() and offset() throw during the call      *)
(* exactly when they are given a negative count or offset, the record      *)
(* never holds a negative limit or offset, and build() and toAql() never   *)
(* raise these errors.                                                     *)
(***************************************************************************)
LimitErrors ==
  {"LIMIT count must be non-negative", "LIMIT offset must be non-negative",
   "OFFSET must be non-negative"}

C9_ThrowsInTheCall ==
  /\ lastCall.op = "limit" =>
       (lastCall.err \in LimitErrors
          <=> \/ lastCall.args[1].n < 0
              \/ lastCall.args[2] # Undefined /\ lastCall.args[2].n < 0)
  /\ lastCall.op = "offset" =>
       (lastCall.err \in LimitErrors <=> IsNegative(lastCall.args[1]))
  /\ lastCall.op \in {"limit", "offset"} => lastCall.err \in LimitErrors \cup {NoError}
  /\ ~IsNegative(query.limit)
  /\ ~IsNegative(query.offset)
  /\ lastCall.op \in {"build", "toAql"} => result.err \notin LimitErrors

\* limit(-1) has thrown
C9_Witness ==
  /\ lastCall.op = "limit"
  /\ lastCall.args[1].n < 0
  /\ lastCall.err = "LIMIT count must be non-negative"

(***************************************************************************)
(* C10.  The build() that follows raw(text, vars) returns text as the      *)
(* query and vars as bindVars, the empty map when vars was not given.      *)
(***************************************************************************)
C10_RawVerbatimStep ==
  (lastCall.op = "raw" /\ lastCall'.op = "build")
    => /\ result'.err = NoError
       /\ result'.value.query = query.raw
       /\ result'.value.bindVars =
            IF query.rawBindVars = Undefined THEN EmptyMap ELSE query.rawBindVars

C10_RawVerbatim == [][C10_RawVerbatimStep]_vars

\* the literal strings of the form @name among the operands of the filters
PlaceholderOperands(q) ==
  {v.s : v \in {l \in UNION ({LiteralsIn(q.filters[i]) : i \in 1..Len(q.filters)}
                  \cup {LiteralsIn(q.filtersPostCollect[i]) :
                          i \in 1..Len(q.filtersPostCollect)}) :
                  l.js = "string" /\ StartsWith(l.s, "@")}}

(***************************************************************************)
(* C11.  A string of the form @name or @@name given as the operand of a    *)
(* combinator or as the FOR source is in the text that build() returns as  *)
(* it was given, and no generated bind variable holds it.                  *)
(***************************************************************************)
C11_PlaceholderVerbatim ==
  Built =>
    /\ \A s \in PlaceholderOperands(query) :
         /\ \E i \in 1..Len(BuiltParts) : Includes(BuiltParts[i], s)
         /\ \A name \in DOMAIN result.value.bindVars :
              result.value.bindVars[name] # Str(s)
    /\ (query.variable # "" /\ query.multipleLoopVars = Undefined
          /\ ~IsNode(query.source) /\ query.source.js = "string"
          /\ StartsWith(query.source.s, "@"))
         => \E i \in 1..Len(BuiltParts) :
              BuiltParts[i] = "FOR " \o query.variable \o " IN " \o query.source.s

\* the generated names that one build() allocates, in the order of allocation
GeneratedWrites(q) ==
  SelectSeq(buildQueryTrace(q).writes, LAMBDA w : w.gen)

(***************************************************************************)
(* C12.  build() changes no field of the record and nothing else of the    *)
(* builder; what it returns is determined by the record alone, the first   *)
(* generated name taking the counter 0 in every build; a build() that      *)
(* follows a build() returns the same text and the same bindVars.          *)
(***************************************************************************)
C12_BuildStep ==
  lastCall'.op = "build" =>
    /\ query' = query /\ currentJoin' = currentJoin /\ stage' = stage
    /\ result' = build(query')
    /\ (result'.err = NoError /\ ~RawMode(query') /\ GeneratedWrites(query') # << >>)
         => GeneratedWrites(query')[1].counter = 0
    /\ lastCall.op = "build" => result' = result

SameButField(q1, q2, f) == \A g \in (DOMAIN q1) \ {f} : q1[g] = q2[g]

(***************************************************************************)
(* C13.  into(c) sets the collection of the last entry of operations to c  *)
(* and changes no other entry, no other field of that entry and no other   *)
(* field of the record; with operations empty it changes nothing.          *)
(***************************************************************************)
C13_IntoStep ==
  Called("into") =>
    /\ currentJoin' = currentJoin /\ stage' = stage
    /\ SameButField(query, query', "operations")
    /\ Len(query'.operations) = Len(query.operations)
    /\ \A i \in 1..Len(query.operations) :
         IF i = Len(query.operations)
         THEN /\ query'.operations[i].collection = lastCall'.args[1]
              /\ SameButField(query.operations[i], query'.operations[i], "collection")
         ELSE query'.operations[i] = query.operations[i]

C13_IntoFrame == [][C13_IntoStep]_vars

\* into() after two operations: the first has no collection, the second has
C13_Witness ==
  /\ lastCall.op = "into"
  /\ Len(query.operations) = 2
  /\ query.operations[1].collection = ""
  /\ query.operations[2].collection = lastCall.args[1]

\* the smallest position of a set of positions
FirstOf(positions) == CHOOSE i \in positions : \A j \in positions : i <= j

\* the source that a source call stores for what it was given
SourceGiven(call) ==
  CASE call.op = "in" -> call.args[1]
    [] call.op = "inEdge" -> Str(call.args[1])
    [] call.op = "inGraph" ->
         [type |-> "graph", graph |-> call.args[1].graph,
          direction |-> call.args[1].direction,
          startVertex |-> call.args[1].startVertex.s,
          minDepth |-> IF Truthy(call.args[1].minDepth)
                       THEN call.args[1].minDepth ELSE Num(1),
          maxDepth |-> call.args[1].maxDepth, options |-> call.args[1].options]

(***************************************************************************)
(* C14.  The first for() sets the primary loop variable; every later for() *)
(* appends one join with its variable to joins; the source call that       *)
(* follows it sets the source of that join and of nothing else; the text   *)
(* that build() returns has one FOR line per join, directly after the      *)
(* primary FOR line, in the order of the calls.                            *)
(***************************************************************************)
C14_ForStep ==
  /\ Called("for") =>
       IF query.variable = ""
       THEN /\ query' = [query EXCEPT !.variable = extractVariableName(lastCall'.args[1])]
            /\ currentJoin' = currentJoin
       ELSE /\ SameButField(query, query', "joins")
            /\ Len(query'.joins) = Len(query.joins) + 1
            /\ IsPrefix(query.joins, query'.joins)
            /\ query'.joins[Len(query'.joins)].variable
                 = extractVariableName(lastCall'.args[1])
            /\ currentJoin' = Len(query'.joins)
  /\ ((Called("in") \/ Called("inEdge") \/ Called("inGraph"))
        /\ lastCall.op = "for" /\ Len(query.joins) > 0)
       => /\ currentJoin = Len(query.joins)
          /\ SameButField(query, query', "joins")
          /\ Len(query'.joins) = Len(query.joins)
          /\ \A i \in 1..Len(query.joins) :
               IF i = Len(query.joins)
               THEN /\ query'.joins[i].variable = query.joins[i].variable
                    /\ query'.joins[i].source = SourceGiven(lastCall')
               ELSE query'.joins[i] = query.joins[i]

C14_ForLines ==
  Built =>
    /\ Len(query.joins) > 0 => query.variable # ""
    /\ Cardinality(PositionsOf(BuiltParts, "FOR"))
         = Len(query.joins)
             + (IF query.variable # "" \/ query.multipleLoopVars # Undefined
                THEN 1 ELSE 0)
    /\ \A i \in 1..Len(query.joins) :
         BuiltParts[FirstOf(PositionsOf(BuiltParts, "FOR")) + i]
           = "FOR " \o query.joins[i].variable \o " IN "
               \o SourceStr(query.joins[i].source)

C14_Joins == [][C14_ForStep]_vars /\ []C14_ForLines

\* for(u).in(users).for(o).in(...): the join has its source and its FOR line
C14_Witness ==
  /\ Built
  /\ query.variable = "u" /\ query.source = Str("users")
  /\ Len(query.joins) = 1 /\ query.joins[1].variable = "o"
  /\ query.joins[1].source = range(1, 3)
  /\ BuiltParts = <<"FOR u IN users", "FOR o IN 1..3">>

\* the stage that each call of the UPSERT chain is made on and the one it returns
UpsertStageBefore(op) ==
  CASE op = "upsert.insert" -> "UpsertBuilder"
    [] op = "upsert.update" -> "UpsertUpdateBuilder"
    [] op = "upsert.into" -> "UpsertIntoBuilder"
UpsertStageAfter(op) ==
  CASE op = "upsert" -> "UpsertBuilder"
    [] op = "upsert.insert" -> "UpsertUpdateBuilder"
    [] op = "upsert.update" -> "UpsertIntoBuilder"

\* an upsert entry with a search, an insert and an update document and a collection
CompleteUpsert(u) ==
  /\ DOMAIN u = {"type", "searchDoc", "insertDoc", "updateDoc", "collection"}
  /\ u.type = "UPSERT"
  /\ u.searchDoc # Undefined /\ u.insertDoc # Undefined /\ u.updateDoc # Undefined
  /\ u.collection # ""

(***************************************************************************)
(* C15.  upsert(search), .insert(doc) and .update(doc) return the next     *)
(* stage, which carries what the earlier stages were given, and leave the  *)
(* Query record alone; each of insert, update and into is only called on   *)
(* the stage before it; into(collection) appends exactly one entry made of *)
(* the four parts; every entry of upserts has its four parts.              *)
(***************************************************************************)
C15_UpsertStep ==
  /\ lastCall'.op \in {"upsert", "upsert.insert", "upsert.update"} =>
       /\ query' = query /\ currentJoin' = currentJoin
       /\ stage'.kind = UpsertStageAfter(lastCall'.op)
       /\ lastCall'.op # "upsert" =>
            /\ stage.kind = UpsertStageBefore(lastCall'.op)
            /\ \A f \in (DOMAIN stage) \ {"kind"} : stage'[f] = stage[f]
  /\ lastCall'.op = "upsert.into" =>
       /\ stage.kind = "UpsertIntoBuilder"
       /\ SameButField(query, query', "upserts")
       /\ Len(query'.upserts) = Len(query.upserts) + 1
       /\ IsPrefix(query.upserts, query'.upserts)
       /\ query'.upserts[Len(query'.upserts)].searchDoc = stage.searchDoc
       /\ query'.upserts[Len(query'.upserts)].insertDoc = stage.insertDoc
       /\ query'.upserts[Len(query'.upserts)].updateDoc = stage.updateDoc
  /\ lastCall'.op \notin {"upsert.into", "fromJSON"} => query'.upserts = query.upserts

C15_UpsertsComplete ==
  \A i \in 1..Len(query.upserts) : CompleteUpsert(query.upserts[i])

C15_UpsertStages == [][C15_UpsertStep]_vars /\ []C15_UpsertsComplete

\* upsert(...).insert(...).update(...).into('users') was completed and built
C15_Witness ==
  /\ Built
  /\ Len(query.upserts) = 1
  /\ CompleteUpsert(query.upserts[1])
  /\ PositionsOf(BuiltParts, "UPSERT") # {}

\* the lines of a text
RECURSIVE LinesFrom(_, _, _)
LinesFrom(text, start, i) ==
  IF i > Len(text) THEN <<SubSeq(text, start, Len(text))>>
  ELSE IF SubSeq(text, i, i) = "\n"
       THEN <<SubSeq(text, start, i - 1)>> \o LinesFrom(text, i + 1, i + 1)
       ELSE LinesFrom(text, start, i + 1)
Lines(text) == LinesFrom(text, 1, 1)

\* the lines of the COLLECT block of the k-th collect entry in the built text
CollectBlock(k) ==
  Lines(BuiltParts[CHOOSE i \in PositionsOf(BuiltParts, "COLLECT") :
                     Cardinality({j \in PositionsOf(BuiltParts, "COLLECT") : j < i})
                       = k - 1])

(***************************************************************************)
(* C16.  In the text that build() returns, the COLLECT block of every      *)
(* collect entry with at least one aggregation has its AGGREGATE line      *)
(* directly after its COLLECT line.                                        *)
(***************************************************************************)
C16_AggregateAfterCollect ==
  Built =>
    /\ Cardinality(PositionsOf(BuiltParts, "COLLECT")) = Len(query.collects)
    /\ \A k \in 1..Len(query.collects) :
         Len(query.collects[k].aggregate) > 0 =>
           /\ Len(CollectBlock(k)) >= 2
           /\ StartsWith(CollectBlock(k)[1], "COLLECT")
           /\ StartsWith(CollectBlock(k)[2], "  AGGREGATE ")

(***************************************************************************)
(* C17.  In the text that build() returns, the COLLECT block of every      *)
(* collect entry with a non-empty keep list has a line `KEEP f1, f2, ...`  *)
(* with the fields of that list.                                           *)
(***************************************************************************)
C17_KeepLine ==
  Built =>
    \A k \in 1..Len(query.collects) :
      Len(query.collects[k].keep) > 0 =>
        \E n \in 2..Len(CollectBlock(k)) :
          CollectBlock(k)[n] = "  KEEP " \o Join(query.collects[k].keep, ", ")

\* the filters of a record, from before and after its COLLECT
AllFilters(q) ==
  {q.filters[i] : i \in 1..Len(q.filters)}
    \cup {q.filtersPostCollect[i] : i \in 1..Len(q.filtersPostCollect)}

\* a binary IN / NOT IN of a reference with an array as its right-hand side
InArrayFilters(q) ==
  {e \in AllFilters(q) :
     /\ e.type = "binary" /\ e.operator \in {"IN", "NOT IN"}
     /\ e.right.type = "literal" /\ ~IsNode(e.right.value)
     /\ e.right.value.js = "array"}

\* the text of a plain element of an array
ElementText(v) == IF v.js = "string" THEN v.s ELSE NumberToString(v)

PatternLine(e, name) ==
  CASE e.type = "like" /\ e.caseInsensitive ->
         "FILTER LIKE(" \o e.expression.name \o ", @" \o name \o ", 'i')"
    [] e.type = "like" /\ ~e.caseInsensitive ->
         "FILTER (" \o e.expression.name \o " LIKE @" \o name \o ")"
    [] e.type = "regex" ->
         "FILTER REGEX_MATCH(" \o e.expression.name \o ", @" \o name
           \o (IF e.flags # "" THEN ", \"" \o e.flags \o "\"" ELSE "") \o ")"

DepthRange(options) ==
  LET minDepth == IF options.minDepth = Undefined THEN Num(1) ELSE options.minDepth
      maxDepth == IF options.maxDepth = Undefined THEN minDepth ELSE options.maxDepth
  IN NumberToString(minDepth) \o ".." \o NumberToString(maxDepth)

(***************************************************************************)
(* C20.  When build() follows inGraph(options) on a builder with a loop    *)
(* variable, a FOR line of the text has the traversal with the depth range *)
(* `<minDepth>..<maxDepth>` of the options: minDepth as given, or 1;       *)
(* maxDepth as given, or minDepth.                                         *)
(***************************************************************************)
C20_DepthStep ==
  (/\ lastCall.op = "inGraph" /\ lastCall'.op = "build"
   /\ result'.err = NoError /\ ~RawMode(query') /\ query'.variable # "")
    => \E i \in PositionsOf(buildQueryTrace(query').parts, "FOR") :
         Includes(buildQueryTrace(query').parts[i],
                  " IN " \o DepthRange(lastCall.args[1]) \o " "
                    \o lastCall.args[1].direction \o " ")

C20_DepthRange == [][C20_DepthStep]_vars

\* the graph sources of the loops of a record
GraphSources(q) ==
  {src \in {q.source} \cup {q.joins[i].source : i \in 1..Len(q.joins)} :
     IsNode(src) /\ src.type = "graph"}

\* the start vertex as the claim says it is written
VertexText(v) ==
  IF SubSeq(v, 1, 1) = "@" \/ SubSeq(v, 1, 1) = "\"" THEN v
  ELSE IF \E i \in 1..Len(v) : SubSeq(v, i, i) = "/" THEN "\"" \o v \o "\""
  ELSE v

Returned(call, op) == call.op = op /\ call.err = NoError

(***************************************************************************)
(* C22.  limit(c, o), limit(c).offset(o) and offset(o).limit(c) leave      *)
(* limit = c and offset = o in the record, and the text that build()       *)
(* returns for a record with a limit and an offset has the line            *)
(* `LIMIT offset, limit`.                                                  *)
(***************************************************************************)
C22_LimitStep ==
  /\ (Called("limit") /\ lastCall'.args[2] # Undefined) =>
       query'.limit = lastCall'.args[1] /\ query'.offset = lastCall'.args[2]
  /\ (Returned(lastCall, "limit") /\ lastCall.args[2] = Undefined /\ Called("offset")) =>
       query'.limit = lastCall.args[1] /\ query'.offset = lastCall'.args[1]
  /\ (Returned(lastCall, "offset") /\ Called("limit") /\ lastCall'.args[2] = Undefined) =>
       query'.limit = lastCall'.args[1] /\ query'.offset = lastCall.args[1]

C22_LimitLine ==
  (Built /\ query.limit # Undefined /\ query.offset # Undefined) =>
    \E i \in 1..Len(BuiltParts) :
      BuiltParts[i] = "LIMIT " \o NumberToString(query.offset) \o ", "
                        \o NumberToString(query.limit)

C22_LimitForms == [][C22_LimitStep]_vars /\ []C22_LimitLine

(***************************************************************************)
(* C23.  For every enhanced UPDATE entry made by updateWithOld whose field *)
(* map is { visits: old.visits.add(1) }, the text that build() returns has *)
(* a WITH line in which the field is the addition with OLD.visits as its   *)
(* left side.                                                              *)
(***************************************************************************)
C23_OldReference ==
  Built =>
    \A k \in 1..Len(query.updatesEnhanced) :
      (query.updatesEnhanced[k].oldReference
         /\ query.updatesEnhanced[k].updateFields = OldVisits) =>
        \E i \in PositionsOf(BuiltParts, "WITH") :
          Includes(BuiltParts[i], "\"visits\": (OLD.visits + @value")

\* a snapshot edited by hand to hold a negative limit
WithNegativeLimit(json) == [json EXCEPT !.limit = Num(-1)]

(***************************************************************************)
(* C24.  fromJSON(j) on a snapshot j = toJSON() returns normally a builder *)
(* whose record equals j, so that its toJSON() equals j again; a loop      *)
(* variable without source, an operation without collection and a negative *)
(* limit in the snapshot are taken over as they are.                       *)
(***************************************************************************)
C24_FromJSONStep ==
  Called("fromJSON") =>
    /\ query' = serializeQuery(query)
    /\ serializeQuery(query') = serializeQuery(query)

C24_SnapshotRestored ==
  /\ deserializeQuery(serializeQuery(query)) = serializeQuery(query)
  /\ deserializeQuery(WithNegativeLimit(serializeQuery(query)))
       = WithNegativeLimit(serializeQuery(query))

LoopWithoutSource(q) ==
  \/ q.variable # "" /\ q.source = Undefined
  \/ \E i \in 1..Len(q.joins) : q.joins[i].source = Str("")
  \/ q.multipleLoopVars # Undefined /\ q.source = Undefined

(***************************************************************************)
(* C25.  build() on a record in which some declared loop has no source     *)
(* throws and returns nothing; it returns no text with a FOR line that     *)
(* has nothing after IN.                                                   *)
(***************************************************************************)
C25_LoopNeedsSource ==
  (lastCall.op = "build" /\ ~RawMode(query)) =>
    /\ LoopWithoutSource(query) => result.err # NoError /\ result.value = NoValue
    /\ result.err = NoError =>
         \A i \in PositionsOf(BuiltParts, "FOR") :
           SubSeq(BuiltParts[i], Len(BuiltParts[i]) - 3, Len(BuiltParts[i])) # " IN "

\* absent, or a number that is not negative
AbsentOrNonNegative(v) ==
  v = Undefined \/ (v.js = "number" /\ "n" \in DOMAIN v /\ v.n >= 0)

(***************************************************************************)
(* C26.  In every record of the builder, limit and offset are each absent  *)
(* or a non-negative number, also after limit() and offset() calls that    *)
(* threw.                                                                  *)
(***************************************************************************)
C26_NonNegative ==
  AbsentOrNonNegative(query.limit) /\ AbsentOrNonNegative(query.offset)

(***************************************************************************)
(* C27.  collect(vars) and count/sum/average/min/max of its sub-builder    *)
(* leave the record as it is; the terminals build() and into(name) append  *)
(* exactly one entry to collects, with one aggregate per aggregation of    *)
(* the sub-builder, and change nothing else; sort() of the sub-builder     *)
(* appends one entry to sorts and none to collects, so that a filter() or  *)
(* let() after it on a record without collects goes to the pre-collect     *)
(* lists; no call other than a terminal changes collects.                  *)
(***************************************************************************)
C27_CollectStep ==
  /\ lastCall'.op \in {"collect", "COUNT", "SUM"} =>
       query' = query /\ stage'.kind = "CollectBuilder"
  /\ lastCall'.op \in {"collect.build", "collect.into"} =>
       /\ stage.kind = "CollectBuilder"
       /\ SameButField(query, query', "collects")
       /\ Len(query'.collects) = Len(query.collects) + 1
       /\ IsPrefix(query.collects, query'.collects)
       /\ Len(query'.collects[Len(query'.collects)].aggregate)
            = Len(stage.aggregations)
       /\ \A i \in 1..Len(stage.aggregations) :
            query'.collects[Len(query'.collects)].aggregate[i].name
              = stage.aggregations[i].name
       /\ (query'.collects[Len(query'.collects)].into # "")
            <=> (lastCall'.op = "collect.into")
  /\ lastCall'.op = "collect.sort" =>
       /\ SameButField(query, query', "sorts")
       /\ Len(query'.sorts) = Len(query.sorts) + 1
       /\ IsPrefix(query.sorts, query'.sorts)
  /\ (lastCall.op = "collect.sort" /\ Len(query.collects) = 0) =>
       /\ Called("filter") =>
            /\ query'.filters = Append(query.filters, lastCall'.args[1])
            /\ query'.filtersPostCollect = query.filtersPostCollect
       /\ Called("let") =>
            /\ Len(query'.letsPreCollect) = Len(query.letsPreCollect) + 1
            /\ query'.lets = query.lets
  /\ lastCall'.op \notin {"collect.build", "collect.into", "collectKeep.into",
                          "collectKeep.aggregate", "fromJSON"} =>
       query'.collects = query.collects

C27_CollectFrame == [][C27_CollectStep]_vars

\* collect(...).sort(...) and then filter(): one sort, no collect entry, and
\* the filter among the pre-collect filters
C27_Witness ==
  /\ lastCall.op = "filter"
  /\ stage.kind = "CollectBuilder"
  /\ Len(query.sorts) = 1 /\ query.sorts[1].field = "status"
  /\ Len(query.collects) = 0
  /\ Len(query.filters) = 1 /\ Len(query.filtersPostCollect) = 0

\* the characters of a placeholder name, and the digits among them
NameCharacters ==
  LET alphabet == "abcdefghijklmnopqrstuvwxyzABCDEFGHIJKLMNOPQRSTUVWXYZ0123456789_"
  IN {SubSeq(alphabet, i, i) : i \in 1..Len(alphabet)}
Digits == {"0", "1", "2", "3", "4", "5", "6", "7", "8", "9"}

\* the names that follow an @ in a text
RECURSIVE NameEnd(_, _)
NameEnd(s, i) ==
  IF i > Len(s) \/ SubSeq(s, i, i) \notin NameCharacters THEN i - 1
  ELSE NameEnd(s, i + 1)
PlaceholdersIn(s) ==
  {SubSeq(s, i + 1, NameEnd(s, i + 1)) :
     i \in {j \in 1..Len(s) : SubSeq(s, j, j) = "@"}}

\* a name that expressionToAql generates: one of its prefixes and a counter
IsGeneratedName(name) ==
  \E kind \in {"value", "inValues", "likePattern", "regexPattern"} :
    /\ Len(name) > Len(kind)
    /\ SubSeq(name, 1, Len(kind)) = kind
    /\ \A i \in (Len(kind) + 1)..Len(name) : SubSeq(name, i, i) \in Digits

(***************************************************************************)
(* C28.  Every generated placeholder (@valueN, @inValuesN, @likePatternN,  *)
(* @regexPatternN) in the text that build() returns is a key of the        *)
(* bindVars that build() returns.                                          *)
(***************************************************************************)
C28_PlaceholdersAreKeys ==
  Built =>
    \A i \in 1..Len(BuiltParts) :
      \A name \in PlaceholdersIn(BuiltParts[i]) :
        IsGeneratedName(name) => name \in DOMAIN result.value.bindVars

(***************************************************************************)
(* C29.  On a builder on which a for() has created a join, every in(),     *)
(* inEdge() and inGraph() call writes the source of the join created last  *)
(* and nothing else: the primary source, the primary collection and every  *)
(* earlier join stay as they are.                                          *)
(***************************************************************************)
C29_SourceStep ==
  (Len(query.joins) > 0
     /\ (Called("in") \/ Called("inEdge") \/ Called("inGraph"))) =>
    /\ currentJoin = Len(query.joins)
    /\ query'.source = query.source /\ query'.collection = query.collection
    /\ SameButField(query, query', "joins")
    /\ Len(query'.joins) = Len(query.joins)
    /\ \A i \in 1..(Len(query.joins) - 1) : query'.joins[i] = query.joins[i]
    /\ query'.joins[Len(query.joins)]
         = [variable |-> query.joins[Len(query.joins)].variable,
            source |-> SourceGiven(lastCall')]

C29_SourceFrame == [][C29_SourceStep]_vars

\* for(u).for(o) and then two source calls: both wrote the join, and the
\* primary loop still has no source
C29_Witness ==
  /\ remaining = 0
  /\ lastCall.op \in {"in", "inEdge", "inGraph"}
  /\ query.variable # "" /\ query.multipleLoopVars = Undefined
  /\ query.source = Undefined /\ query.collection = ""
  /\ Len(query.joins) = 1 /\ query.joins[1].source # Str("")

(***************************************************************************)
(* C30.  updateWith() and updateWithOld() append one enhanced UPDATE entry *)
(* whose collection is the primary collection of that moment (the empty    *)
(* string when there is none); no later call changes the collection of an  *)
(* entry; build() does not throw because of an empty collection of such an *)
(* entry; every entry is in the text as the three lines UPDATE document,   *)
(* WITH fields, IN collection.                                             *)
(***************************************************************************)
C30_UpdateStep ==
  /\ (Called("updateWith") \/ Called("updateWithOld")) =>
       /\ SameButField(query, query', "updatesEnhanced")
       /\ Len(query'.updatesEnhanced) = Len(query.updatesEnhanced) + 1
       /\ query'.updatesEnhanced[Len(query'.updatesEnhanced)].collection
            = query.collection
  /\ Len(query'.updatesEnhanced) >= Len(query.updatesEnhanced)
  /\ \A k \in 1..Len(query.updatesEnhanced) :
       query'.updatesEnhanced[k].collection = query.updatesEnhanced[k].collection

C30_UpdateLines ==
  /\ (lastCall.op = "build" /\ result.err # NoError) =>
       \/ query.variable # "" /\ query.source = Undefined
       \/ SomeOpWithoutCollection(query.operations)
  /\ Built =>
       /\ Cardinality({i \in 1..Len(BuiltParts) : StartsWith(BuiltParts[i], "WITH {")})
            = Len(query.updatesEnhanced)
       /\ \A k \in 1..Len(query.updatesEnhanced) :
            \E i \in 2..(Len(BuiltParts) - 1) :
              /\ BuiltParts[i - 1] = "UPDATE " \o query.updatesEnhanced[k].document
              /\ StartsWith(BuiltParts[i], "WITH {")
              /\ BuiltParts[i + 1] = "IN " \o query.updatesEnhanced[k].collection

C30_UpdateCollection == [][C30_UpdateStep]_vars /\ []C30_UpdateLines

\* updateWith() before in('users'): the entry kept the empty collection, the
\* primary collection is users, and build() returned the three lines
C30_Witness ==
  /\ Built
  /\ query.collection = "users"
  /\ Len(query.updatesEnhanced) = 1 /\ query.updatesEnhanced[1].collection = ""
  /\ \E i \in 1..Len(BuiltParts) : BuiltParts[i] = "IN "

====
